---- MODULE Spec2Model ----
(***************************************************************************)
(* Pricing / costing engine of gaia-puravida (src/lib/types.ts).           *)
(*                                                                         *)
(* JavaScript numbers are modelled as binary floating-point numbers with   *)
(* a significand of Precision bits (the program's doubles have 53), an     *)
(* unbounded exponent and round-to-nearest, ties-to-even: a number is a    *)
(* record [n, d] in lowest terms with d > 0; d = 0 encodes the non-finite  *)
(* values (n = 1: Infinity, n = -1: -Infinity, n = 0: NaN).  Every         *)
(* arithmetic operator rounds its exact result.  `undefined` is the record *)
(* Undefined, so that it compares with numbers and records.                *)
(***************************************************************************)
EXTENDS Integers, Sequences, FiniteSets, TLC

VARIABLES
    material,     \* argument of getMaterialDerivedValues / getProductMaterialCost
    requirement,  \* argument of getProductMaterialCost
    product,      \* argument of calculateProductCosts
    materials,    \* argument of calculateProductCosts
    derived,      \* value returned by getMaterialDerivedValues
    lineResult,   \* value returned by getProductMaterialCost
    result,       \* value returned by calculateProductCosts
    targetUnit,        \* unit argument of getUnitSystem and of the conversions
    givenQuantity,     \* quantity argument of convertToBaseUnit
    unitSystemResult,  \* value returned by getUnitSystem
    baseResult,        \* value returned by convertToBaseUnit
    roundTrip,         \* value returned by convertFromBaseUnit(baseResult, targetUnit)
    product2,     \* argument of a second call of calculateProductCosts
    materials2,   \* argument of a second call of calculateProductCosts
    result2,      \* value returned by the second call
    invocations,  \* the running calls of calculateProductCosts: arguments, position, locals
    materialDictionaries,  \* the Map objects the running calls have built
    storedMaterial,      \* a rawMaterials document as read from the store
    storedProduct,       \* a products document as read from the store
    normalizedMaterial,  \* value returned by normalizeRawMaterial
    normalizedProduct,  \* value returned by normalizeProduct, or the error it throws
    rawMaterials,  \* the material snapshot the page holds (useState)
    products,  \* the product snapshot the page holds (useState)
    productsMemo,  \* the dependencies and value that useMemo keeps for productsWithDerived
    materialError,  \* whether materialError holds a message
    productError,  \* whether productError holds a message
    materialForm,  \* the fields of the material form (useState)
    isMaterialModalOpen,  \* whether the material modal is open
    isSavingMaterial,  \* the saving flag of the material form
    materialCall,  \* the createRawMaterial or updateRawMaterial call that has not settled
    productForm,  \* the fields of the product form (useState)
    isProductModalOpen,  \* whether the product modal is open
    isSavingProduct,  \* the saving flag of the product form
    productCall,  \* the createProduct or updateProduct call that has not settled
    toast  \* the toast that the last step showed, undefined when it showed none

costVars == <<material, requirement, product, materials, derived, lineResult, result>>

unitVars == <<targetUnit, givenQuantity, unitSystemResult, baseResult, roundTrip>>

pairVars == <<product2, materials2, result2>>

callVars == <<invocations, materialDictionaries>>

storeVars == <<storedMaterial, storedProduct, normalizedMaterial, normalizedProduct>>

pageVars == <<rawMaterials, products, productsMemo, materialError, productError>>

materialFormVars == <<materialForm, isMaterialModalOpen, isSavingMaterial, materialCall>>

productFormVars == <<productForm, isProductModalOpen, isSavingProduct, productCall>>

formVars == <<materialFormVars, productFormVars, toast>>

vars == <<costVars, unitVars, pairVars, callVars, storeVars, pageVars, formVars>>

Undefined == [undefined |-> TRUE]

----------------------------------------------------------------------------
(* Numbers *)

Abs(x) == IF x < 0 THEN -x ELSE x

Sign(x) == IF x > 0 THEN 1 ELSE IF x < 0 THEN -1 ELSE 0

RECURSIVE GCD(_, _)
GCD(a, b) == IF b = 0 THEN a ELSE GCD(b, a % b)

Norm(n, d) ==
    IF d = 0
    THEN [n |-> Sign(n), d |-> 0]
    ELSE LET g == GCD(Abs(n), Abs(d))
             s == Sign(d)
         IN  [n |-> (s * n) \div g, d |-> (s * d) \div g]

Num(k) == [n |-> k, d |-> 1]

Zero == Num(0)

One == Num(1)

NaN == [n |-> 0, d |-> 0]

Infinity == [n |-> 1, d |-> 0]

IsFinite(a) == a.d # 0

\* bits of the significand of a number (53 in the program)
Precision == 10

\* a * 2^k >= 2^(Precision - 1) * d
ScaledUp(a, d, k) ==
    IF k < Precision
    THEN a \div 2^(Precision - 1 - k) >= d
    ELSE a * 2^(k - (Precision - 1)) >= d

\* least k with a * 2^k >= 2^(Precision - 1) * d
ScaleUp(a, d) ==
    CHOOSE k \in 0..30 : ScaledUp(a, d, k) /\ (k = 0 \/ ~ScaledUp(a, d, k - 1))

\* a < 2^Precision * d * 2^k
ScaledDown(a, d, k) == a \div 2^(Precision + k) < d

\* least k with a < 2^Precision * d * 2^k
ScaleDown(a, d) ==
    CHOOSE k \in 0..(30 - Precision) :
        ScaledDown(a, d, k) /\ (k = 0 \/ ~ScaledDown(a, d, k - 1))

\* quotient q and remainder r of a division by d, rounded to the nearest integer,
\* ties to even
HalfEven(q, r, d) ==
    IF 2 * r > d \/ (2 * r = d /\ q % 2 = 1) THEN q + 1 ELSE q

\* s * a / d * 2^(down - up) with a / d rounded to an integer
Scaled(s, a, d, up, down) ==
    Norm(s * HalfEven(a \div d, a % d, d) * 2^down, 2^up)

\* the exponent of 2 in d, at most k
CommonShift(d, up) ==
    CHOOSE k \in 0..up : d % 2^k = 0 /\ (k = up \/ d % 2^(k + 1) # 0)

\* s * a / d * 2^(down - up), with a * 2^up / (d * 2^down) rounded to an integer
\* after 2^c is cancelled
Nearest(s, a, d, up, down, c) ==
    Scaled(s, a * 2^(up - c), (d \div 2^c) * 2^down, up, down)

\* the nearest number with a significand of Precision bits, ties to even
Round(x) ==
    IF x.d = 0 \/ x.n = 0 THEN x
    ELSE Nearest(Sign(x.n), Abs(x.n), x.d,
                 ScaleUp(Abs(x.n), x.d), ScaleDown(Abs(x.n), x.d),
                 CommonShift(x.d, ScaleUp(Abs(x.n), x.d)))

Mul(a, b) == Round(Norm(a.n * b.n, a.d * b.d))

Div(a, b) == Round(Norm(a.n * b.d, a.d * b.n))

Add(a, b) ==
    IF a.d = 0 /\ b.d = 0
    THEN IF a.n = b.n THEN a ELSE NaN
    ELSE Round(Norm(a.n * b.d + b.n * a.d, a.d * b.d))

Gt(a, b) == a.n * b.d > b.n * a.d

----------------------------------------------------------------------------
(* Units *)

Units == {"g", "kg", "ml", "l", "unit"}

getUnitSystem_gramsOnly(unit) ==
    IF unit = "g" THEN "mass"
    ELSE IF unit = "ml" \/ unit = "l" THEN "volume"
    ELSE "unit"

getUnitSystem(unit) ==
    IF unit = "g" \/ unit = "kg" THEN "mass"
    ELSE IF unit = "ml" \/ unit = "l" THEN "volume"
    ELSE "unit"

\* quantity * 1000 rounded to a whole number, as Math.round would
convertToBaseUnit_wholeNumber(quantity, unit) ==
    IF unit = "kg" \/ unit = "l"
    THEN Num(HalfEven((1000 * quantity.n) \div quantity.d, (1000 * quantity.n) % quantity.d,
                      quantity.d))
    ELSE quantity

convertToBaseUnit(quantity, unit) ==
    IF unit = "kg" THEN Mul(quantity, Num(1000))
    ELSE IF unit = "l" THEN Mul(quantity, Num(1000))
    ELSE quantity

convertFromBaseUnit_kilogramOnly(baseQuantity, unit) ==
    IF unit = "kg" THEN Div(baseQuantity, Num(1000)) ELSE baseQuantity

convertFromBaseUnit(baseQuantity, unit) ==
    IF unit = "kg" THEN Div(baseQuantity, Num(1000))
    ELSE IF unit = "l" THEN Div(baseQuantity, Num(1000))
    ELSE baseQuantity

----------------------------------------------------------------------------
(* getMaterialDerivedValues *)

pricePerBaseUnit_unguarded(m, baseQuantity) == Div(m.purchasePrice, baseQuantity)

pricePerBaseUnit_nonZeroGuard(m, baseQuantity) ==
    IF baseQuantity # Zero THEN Div(m.purchasePrice, baseQuantity) ELSE Zero

pricePerBaseUnit(m, baseQuantity) ==
    IF Gt(baseQuantity, Zero) THEN Div(m.purchasePrice, baseQuantity) ELSE Zero

pricePerGram(unitSystem, ppbu) ==
    IF unitSystem = "mass" THEN ppbu ELSE Undefined

pricePerKilogram_divided(unitSystem, ppbu) ==
    IF unitSystem = "mass" THEN Div(ppbu, Num(1000)) ELSE Undefined

pricePerKilogram(unitSystem, ppbu) ==
    IF unitSystem = "mass" THEN Mul(ppbu, Num(1000)) ELSE Undefined

pricePerMilliliter(unitSystem, ppbu) ==
    IF unitSystem = "volume" THEN ppbu ELSE Undefined

pricePerLiter_zeroFilled(unitSystem, ppbu) ==
    IF unitSystem = "volume" THEN Mul(ppbu, Num(1000)) ELSE Zero

pricePerLiter(unitSystem, ppbu) ==
    IF unitSystem = "volume" THEN Mul(ppbu, Num(1000)) ELSE Undefined

pricePerUnit_unguarded(unitSystem, m) ==
    IF unitSystem = "unit"
    THEN Div(m.purchasePrice, m.purchaseQuantity)
    ELSE Undefined

pricePerUnit(unitSystem, m) ==
    IF unitSystem = "unit" /\ Gt(m.purchaseQuantity, Zero)
    THEN Div(m.purchasePrice, m.purchaseQuantity)
    ELSE Undefined

getMaterialDerivedValues(m) ==
    LET unitSystem == getUnitSystem(m.purchaseUnit)
        baseQuantity == convertToBaseUnit(m.purchaseQuantity, m.purchaseUnit)
        ppbu == pricePerBaseUnit(m, baseQuantity)
    IN  [ unitSystem |-> unitSystem,
          baseQuantity |-> baseQuantity,
          pricePerBaseUnit |-> ppbu,
          pricePerGram |-> pricePerGram(unitSystem, ppbu),
          pricePerKilogram |-> pricePerKilogram(unitSystem, ppbu),
          pricePerMilliliter |-> pricePerMilliliter(unitSystem, ppbu),
          pricePerLiter |-> pricePerLiter(unitSystem, ppbu),
          pricePerUnit |-> pricePerUnit(unitSystem, m) ]

----------------------------------------------------------------------------
(* getProductMaterialCost *)

NotFoundWarning == [text |-> "Materia prima no encontrada"]

IncompatibleWarning ==
    [text |-> "Unidad incompatible. Ajusta la unidad de la materia prima o del producto"]

cost_unconverted(d, req) == Mul(d.pricePerBaseUnit, req.quantity)

\* requirementBaseQuantity and cost of a compatible requirement
cost(d, req) ==
    LET requirementBaseQuantity == convertToBaseUnit(req.quantity, req.unit)
    IN  Mul(d.pricePerBaseUnit, requirementBaseQuantity)

getProductMaterialCost_unchecked(m, req) ==
    IF m = Undefined
    THEN [cost |-> Zero, valid |-> FALSE, warning |-> NotFoundWarning]
    ELSE [ cost |-> cost(getMaterialDerivedValues(m), req),
           valid |-> TRUE,
           warning |-> Undefined ]

getProductMaterialCost_costOnInvalid(m, req) ==
    IF m = Undefined
    THEN [cost |-> Zero, valid |-> FALSE, warning |-> NotFoundWarning]
    ELSE LET d == getMaterialDerivedValues(m)
             requirementSystem == getUnitSystem(req.unit)
         IN  IF d.unitSystem # requirementSystem
             THEN [cost |-> cost(d, req), valid |-> FALSE, warning |-> IncompatibleWarning]
             ELSE [cost |-> cost(d, req), valid |-> TRUE, warning |-> Undefined]

getProductMaterialCost(m, req) ==
    IF m = Undefined
    THEN [cost |-> Zero, valid |-> FALSE, warning |-> NotFoundWarning]
    ELSE LET d == getMaterialDerivedValues(m)
             requirementSystem == getUnitSystem(req.unit)
         IN  IF d.unitSystem # requirementSystem
             THEN [cost |-> Zero, valid |-> FALSE, warning |-> IncompatibleWarning]
             ELSE [cost |-> cost(d, req), valid |-> TRUE, warning |-> Undefined]

----------------------------------------------------------------------------
(* calculateProductCosts *)

materialDictionary_fallback(ms, id) ==
    LET idx == {i \in 1..Len(ms) : ms[i].id = id}
    IN  IF idx = {} THEN (IF Len(ms) = 0 THEN Undefined ELSE ms[Len(ms)])
        ELSE ms[CHOOSE i \in idx : \A j \in idx : j <= i]

materialDictionary_firstWins(ms, id) ==
    LET idx == {i \in 1..Len(ms) : ms[i].id = id}
    IN  IF idx = {} THEN Undefined
        ELSE ms[CHOOSE i \in idx : \A j \in idx : i <= j]

\* new Map(materials.map(item => [item.id, item])).get(id): the last entry wins
materialDictionary(ms, id) ==
    LET idx == {i \in 1..Len(ms) : ms[i].id = id}
    IN  IF idx = {} THEN Undefined
        ELSE ms[CHOOSE i \in idx : \A j \in idx : j <= i]

breakdown_baseQuantity(p, ms) ==
    [ i \in 1..Len(p.materials) |->
        LET item == p.materials[i]
            r == getProductMaterialCost(materialDictionary(ms, item.materialId), item)
        IN  [ materialId |-> item.materialId,
              cost |-> r.cost,
              quantity |-> convertToBaseUnit(item.quantity, item.unit),
              unit |-> item.unit,
              valid |-> r.valid,
              warning |-> r.warning ] ]

breakdown(p, ms) ==
    [ i \in 1..Len(p.materials) |->
        LET item == p.materials[i]
            r == getProductMaterialCost(materialDictionary(ms, item.materialId), item)
        IN  [ materialId |-> item.materialId,
              cost |-> r.cost,
              quantity |-> item.quantity,
              unit |-> item.unit,
              valid |-> r.valid,
              warning |-> r.warning ] ]

\* breakdown.reduce((sum, item) => sum + item.cost, 0), over the first k lines
RECURSIVE reduceCost(_, _)
reduceCost(lines, k) ==
    IF k = 0 THEN Zero
    ELSE Add(reduceCost(lines, k - 1), lines[k].cost)

totalMaterialCost_lastOnly(lines) ==
    IF Len(lines) = 0 THEN Zero ELSE lines[Len(lines)].cost

totalMaterialCost(lines) == reduceCost(lines, Len(lines))

totalCost_noAdditional(p, tmc) == Add(tmc, p.laborCost)

totalCost(p, tmc) == Add(Add(tmc, p.laborCost), p.additionalCost)

unitCost_unguarded(p, tc) == Div(tc, p.batchSize)

unitCost(p, tc) ==
    IF Gt(p.batchSize, Zero) THEN Div(tc, p.batchSize) ELSE tc

recommendedPrice_marginOnPrice(p, uc) ==
    IF Gt(p.targetMargin, Zero)
    THEN Div(uc, Add(One, Mul(Num(-1), Div(p.targetMargin, Num(100)))))
    ELSE uc

recommendedPrice(p, uc) ==
    IF Gt(p.targetMargin, Zero)
    THEN Mul(uc, Add(One, Div(p.targetMargin, Num(100))))
    ELSE uc

calculateProductCosts(p, ms) ==
    LET lines == breakdown(p, ms)
        tmc == totalMaterialCost(lines)
        tc == totalCost(p, tmc)
        uc == unitCost(p, tc)
    IN  [ totalMaterialCost |-> tmc,
          totalCost |-> tc,
          unitCost |-> uc,
          recommendedPrice |-> recommendedPrice(p, uc),
          breakdown |-> lines ]

----------------------------------------------------------------------------
(* Inputs *)

MaxMaterials == 2

MaxRequirements == 2

UnknownUnits == {"oz"}

AnyUnits == Units \cup UnknownUnits

Prices == {Zero, Num(3), Num(1000)}

Quantities == {Num(-1), Zero, Norm(1, 2), One, Num(2)}

RequirementQuantities == {Num(-1), Zero, Norm(1, 2), Num(500)}

RawMaterialRecords ==
    [ id : {"m1"}, purchasePrice : Prices, purchaseQuantity : Quantities,
      purchaseUnit : AnyUnits ]

ProductMaterialInputs ==
    [materialId : {"m1"}, quantity : RequirementQuantities, unit : AnyUnits]

\* the materials and formula lines that the lists of calculateProductCosts hold
ListedMaterials ==
    [ id : {"m1", "m2"}, purchasePrice : {Num(1000)}, purchaseQuantity : {One},
      purchaseUnit : {"kg", "l"} ]

ListedAmounts == {<<Num(500), "g">>, <<Num(2), "kg">>, <<Num(500), "ml">>}

ListedRequirements ==
    { [materialId |-> id, quantity |-> a[1], unit |-> a[2]] :
        id \in {"m1", "m2"}, a \in ListedAmounts }

MaterialLists == UNION {[1..k -> ListedMaterials] : k \in 0..MaxMaterials}

RequirementLists == UNION {[1..k -> ListedRequirements] : k \in 0..MaxRequirements}

\* the scenario of the specification: 1000 for 1 kg; 500 g, batch 10, 200 + 50, 40 %
ScenarioMaterial ==
    [id |-> "m1", purchasePrice |-> Num(1000), purchaseQuantity |-> One, purchaseUnit |-> "kg"]

ScenarioRequirement == [materialId |-> "m1", quantity |-> Num(500), unit |-> "g"]

ScenarioProduct ==
    [ batchSize |-> Num(10), materials |-> <<ScenarioRequirement>>,
      laborCost |-> Num(200), additionalCost |-> Num(50), targetMargin |-> Num(40) ]

\* every combination of the scalar fields, over the formula of the scenario
\* and the empty formula
ScalarVariants ==
    [ batchSize : {Num(-2), Zero, Num(10)},
      materials : {<<>>, <<ScenarioRequirement>>},
      laborCost : {Zero, Num(200)},
      additionalCost : {Zero, Num(50)},
      targetMargin : {Num(-5), Zero, Num(40)} ]

\* every formula of up to MaxRequirements lines, with the scalar fields of the scenario
FormulaVariants == {[ScenarioProduct EXCEPT !.materials = l] : l \in RequirementLists}

ProductRecords == ScalarVariants \cup FormulaVariants

----------------------------------------------------------------------------
(* Specifications: each draws the arguments of one function and applies it *)

TypeOK ==
    /\ material \in RawMaterialRecords \cup {Undefined}
    /\ requirement \in ProductMaterialInputs \cup {Undefined}
    /\ product \in ProductRecords \cup {Undefined}
    /\ materials \in MaterialLists

InitDerived ==
    /\ material \in RawMaterialRecords
    /\ requirement = Undefined
    /\ product = Undefined
    /\ materials = <<>>
    /\ derived = Undefined
    /\ lineResult = Undefined
    /\ result = Undefined
    /\ targetUnit = "unit"
    /\ givenQuantity = Undefined
    /\ unitSystemResult = Undefined
    /\ baseResult = Undefined
    /\ roundTrip = Undefined
    /\ product2 = Undefined
    /\ materials2 = <<>>
    /\ result2 = Undefined
    /\ invocations = <<>>
    /\ materialDictionaries = <<>>
    /\ storedMaterial = Undefined
    /\ storedProduct = Undefined
    /\ normalizedMaterial = Undefined
    /\ normalizedProduct = Undefined
    /\ rawMaterials = <<>>
    /\ products = <<>>
    /\ productsMemo = Undefined
    /\ materialError = FALSE
    /\ productError = FALSE
    /\ materialForm = Undefined
    /\ isMaterialModalOpen = FALSE
    /\ isSavingMaterial = FALSE
    /\ materialCall = Undefined
    /\ productForm = Undefined
    /\ isProductModalOpen = FALSE
    /\ isSavingProduct = FALSE
    /\ productCall = Undefined
    /\ toast = Undefined

GetMaterialDerivedValues ==
    /\ material # Undefined
    /\ derived' = getMaterialDerivedValues(material)
    /\ UNCHANGED <<material, requirement, product, materials, lineResult, result, unitVars, pairVars, callVars, storeVars, pageVars, formVars>>

NextDerived == GetMaterialDerivedValues

SpecDerived == InitDerived /\ [][NextDerived]_vars

InitLine ==
    /\ material \in RawMaterialRecords \cup {Undefined}
    /\ requirement \in ProductMaterialInputs
    /\ product = Undefined
    /\ materials = <<>>
    /\ derived = Undefined
    /\ lineResult = Undefined
    /\ result = Undefined
    /\ targetUnit = "unit"
    /\ givenQuantity = Undefined
    /\ unitSystemResult = Undefined
    /\ baseResult = Undefined
    /\ roundTrip = Undefined
    /\ product2 = Undefined
    /\ materials2 = <<>>
    /\ result2 = Undefined
    /\ invocations = <<>>
    /\ materialDictionaries = <<>>
    /\ storedMaterial = Undefined
    /\ storedProduct = Undefined
    /\ normalizedMaterial = Undefined
    /\ normalizedProduct = Undefined
    /\ rawMaterials = <<>>
    /\ products = <<>>
    /\ productsMemo = Undefined
    /\ materialError = FALSE
    /\ productError = FALSE
    /\ materialForm = Undefined
    /\ isMaterialModalOpen = FALSE
    /\ isSavingMaterial = FALSE
    /\ materialCall = Undefined
    /\ productForm = Undefined
    /\ isProductModalOpen = FALSE
    /\ isSavingProduct = FALSE
    /\ productCall = Undefined
    /\ toast = Undefined

GetProductMaterialCost ==
    /\ requirement # Undefined
    /\ lineResult' = getProductMaterialCost(material, requirement)
    /\ UNCHANGED <<material, requirement, product, materials, derived, result, unitVars, pairVars, callVars, storeVars, pageVars, formVars>>

NextLine == GetProductMaterialCost

SpecLine == InitLine /\ [][NextLine]_vars

Init ==
    /\ material = Undefined
    /\ requirement = Undefined
    /\ \/ product \in ScalarVariants /\ materials \in {<<>>, <<ScenarioMaterial>>}
       \/ product \in FormulaVariants /\ materials \in MaterialLists
    /\ derived = Undefined
    /\ lineResult = Undefined
    /\ result = Undefined
    /\ targetUnit = "unit"
    /\ givenQuantity = Undefined
    /\ unitSystemResult = Undefined
    /\ baseResult = Undefined
    /\ roundTrip = Undefined
    /\ product2 = Undefined
    /\ materials2 = <<>>
    /\ result2 = Undefined
    /\ invocations = <<>>
    /\ materialDictionaries = <<>>
    /\ storedMaterial = Undefined
    /\ storedProduct = Undefined
    /\ normalizedMaterial = Undefined
    /\ normalizedProduct = Undefined
    /\ rawMaterials = <<>>
    /\ products = <<>>
    /\ productsMemo = Undefined
    /\ materialError = FALSE
    /\ productError = FALSE
    /\ materialForm = Undefined
    /\ isMaterialModalOpen = FALSE
    /\ isSavingMaterial = FALSE
    /\ materialCall = Undefined
    /\ productForm = Undefined
    /\ isProductModalOpen = FALSE
    /\ isSavingProduct = FALSE
    /\ productCall = Undefined
    /\ toast = Undefined

CalculateProductCosts ==
    /\ product # Undefined
    /\ result' = calculateProductCosts(product, materials)
    /\ UNCHANGED <<material, requirement, product, materials, derived, lineResult, unitVars, pairVars, callVars, storeVars, pageVars, formVars>>

Next == CalculateProductCosts

Spec == Init /\ [][Next]_vars

\* the quantities given to the conversions: every multiple of 1/512 from -1/512
\* to 1023/512
UnitQuantities == {Norm(k, 512) : k \in -1..1023}

InitUnits ==
    /\ material = Undefined
    /\ requirement = Undefined
    /\ product = Undefined
    /\ materials = <<>>
    /\ derived = Undefined
    /\ lineResult = Undefined
    /\ result = Undefined
    /\ targetUnit \in AnyUnits
    /\ givenQuantity \in UnitQuantities
    /\ unitSystemResult = Undefined
    /\ baseResult = Undefined
    /\ roundTrip = Undefined
    /\ product2 = Undefined
    /\ materials2 = <<>>
    /\ result2 = Undefined
    /\ invocations = <<>>
    /\ materialDictionaries = <<>>
    /\ storedMaterial = Undefined
    /\ storedProduct = Undefined
    /\ normalizedMaterial = Undefined
    /\ normalizedProduct = Undefined
    /\ rawMaterials = <<>>
    /\ products = <<>>
    /\ productsMemo = Undefined
    /\ materialError = FALSE
    /\ productError = FALSE
    /\ materialForm = Undefined
    /\ isMaterialModalOpen = FALSE
    /\ isSavingMaterial = FALSE
    /\ materialCall = Undefined
    /\ productForm = Undefined
    /\ isProductModalOpen = FALSE
    /\ isSavingProduct = FALSE
    /\ productCall = Undefined
    /\ toast = Undefined

GetUnitSystem ==
    /\ givenQuantity # Undefined
    /\ unitSystemResult' = [system |-> getUnitSystem(targetUnit)]
    /\ UNCHANGED <<costVars, targetUnit, givenQuantity, baseResult, roundTrip, pairVars, callVars, storeVars, pageVars, formVars>>

ConvertToBaseUnit ==
    /\ givenQuantity # Undefined
    /\ baseResult' = convertToBaseUnit(givenQuantity, targetUnit)
    /\ UNCHANGED <<costVars, targetUnit, givenQuantity, unitSystemResult, roundTrip, pairVars, callVars, storeVars, pageVars, formVars>>

ConvertFromBaseUnit ==
    /\ baseResult # Undefined
    /\ roundTrip' = convertFromBaseUnit(baseResult, targetUnit)
    /\ UNCHANGED <<costVars, targetUnit, givenQuantity, unitSystemResult, baseResult, pairVars, callVars, storeVars, pageVars, formVars>>

NextUnits == GetUnitSystem \/ ConvertToBaseUnit \/ ConvertFromBaseUnit

SpecUnits == InitUnits /\ [][NextUnits]_vars

----------------------------------------------------------------------------
(* calculateProductCosts on arguments of either sign *)

SignedMaterials ==
    [ id : {"m1"}, purchasePrice : {Num(-3), Zero, Num(3)},
      purchaseQuantity : {Num(-1), Zero, Norm(1, 2)}, purchaseUnit : {"kg"} ]

SignedRequirements ==
    [materialId : {"m1"}, quantity : {Num(-1), Zero, Norm(1, 2)}, unit : {"g", "ml"}]

SignedProducts ==
    [ batchSize : {Num(-2), Zero, Num(10)},
      materials : {<<r>> : r \in SignedRequirements},
      laborCost : {Num(-1), Zero, Num(200)},
      additionalCost : {Num(-1), Zero},
      targetMargin : {Num(-5), Zero, Num(40)} ]

InitSigned ==
    /\ material = Undefined
    /\ requirement = Undefined
    /\ product \in SignedProducts
    /\ materials \in {<<m>> : m \in SignedMaterials}
    /\ derived = Undefined
    /\ lineResult = Undefined
    /\ result = Undefined
    /\ targetUnit = "unit"
    /\ givenQuantity = Undefined
    /\ unitSystemResult = Undefined
    /\ baseResult = Undefined
    /\ roundTrip = Undefined
    /\ product2 = Undefined
    /\ materials2 = <<>>
    /\ result2 = Undefined
    /\ invocations = <<>>
    /\ materialDictionaries = <<>>
    /\ storedMaterial = Undefined
    /\ storedProduct = Undefined
    /\ normalizedMaterial = Undefined
    /\ normalizedProduct = Undefined
    /\ rawMaterials = <<>>
    /\ products = <<>>
    /\ productsMemo = Undefined
    /\ materialError = FALSE
    /\ productError = FALSE
    /\ materialForm = Undefined
    /\ isMaterialModalOpen = FALSE
    /\ isSavingMaterial = FALSE
    /\ materialCall = Undefined
    /\ productForm = Undefined
    /\ isProductModalOpen = FALSE
    /\ isSavingProduct = FALSE
    /\ productCall = Undefined
    /\ toast = Undefined

SpecSigned == InitSigned /\ [][Next]_vars

----------------------------------------------------------------------------
(* Two calls of calculateProductCosts on related arguments *)

MaxPairLines == 3

PairRequirements ==
    { [materialId |-> "m1", quantity |-> One, unit |-> "kg"],
      [materialId |-> "m1", quantity |-> Norm(1, 2), unit |-> "g"],
      [materialId |-> "m2", quantity |-> Num(500), unit |-> "ml"] }

InsertedRequirements ==
    { [materialId |-> "m3", quantity |-> Num(500), unit |-> "g"],
      [materialId |-> "m1", quantity |-> Num(500), unit |-> "ml"],
      [materialId |-> "m1", quantity |-> Num(500), unit |-> "g"] }

PairLists == UNION {[1..k -> PairRequirements] : k \in 0..MaxPairLines}

PairMaterials ==
    {m \in ListedMaterials : m.purchaseUnit = (IF m.id = "m1" THEN "kg" ELSE "l")}

\* the material lists without a repeated id
DistinctMaterialLists ==
    {l \in UNION {[1..k -> PairMaterials] : k \in 0..MaxMaterials} :
        \A i, j \in 1..Len(l) : l[i].id = l[j].id => i = j}

\* the rearrangements of a sequence
Rearrangements(seq) ==
    {[i \in 1..Len(seq) |-> seq[f[i]]] : f \in Permutations(1..Len(seq))}

\* seq with x inserted so that it becomes element number pos
Inserted(seq, pos, x) ==
    [i \in 1..(Len(seq) + 1) |->
        IF i < pos THEN seq[i] ELSE IF i = pos THEN x ELSE seq[i - 1]]

InitPair ==
    /\ material = Undefined
    /\ requirement = Undefined
    /\ product \in {[ScenarioProduct EXCEPT !.materials = l] : l \in PairLists}
    /\ materials \in DistinctMaterialLists
    /\ derived = Undefined
    /\ lineResult = Undefined
    /\ result = Undefined
    /\ targetUnit = "unit"
    /\ givenQuantity = Undefined
    /\ unitSystemResult = Undefined
    /\ baseResult = Undefined
    /\ roundTrip = Undefined
    /\ \/ /\ materials2 \in Rearrangements(materials)
          /\ \E l \in Rearrangements(product.materials) :
                product2 = [product EXCEPT !.materials = l]
       \/ /\ materials2 = materials
          /\ \E pos \in 1..(Len(product.materials) + 1), x \in InsertedRequirements :
                product2 = [product EXCEPT !.materials = Inserted(product.materials, pos, x)]
    /\ result2 = Undefined
    /\ invocations = <<>>
    /\ materialDictionaries = <<>>
    /\ storedMaterial = Undefined
    /\ storedProduct = Undefined
    /\ normalizedMaterial = Undefined
    /\ normalizedProduct = Undefined
    /\ rawMaterials = <<>>
    /\ products = <<>>
    /\ productsMemo = Undefined
    /\ materialError = FALSE
    /\ productError = FALSE
    /\ materialForm = Undefined
    /\ isMaterialModalOpen = FALSE
    /\ isSavingMaterial = FALSE
    /\ materialCall = Undefined
    /\ productForm = Undefined
    /\ isProductModalOpen = FALSE
    /\ isSavingProduct = FALSE
    /\ productCall = Undefined
    /\ toast = Undefined

CalculateProductCosts2 ==
    /\ product2 # Undefined
    /\ result2' = calculateProductCosts(product2, materials2)
    /\ UNCHANGED <<costVars, unitVars, product2, materials2, callVars, storeVars, pageVars, formVars>>

NextPair == CalculateProductCosts \/ CalculateProductCosts2

SpecPair == InitPair /\ [][NextPair]_vars

----------------------------------------------------------------------------
(* Calls of calculateProductCosts running at the same time, statement by statement *)

Invocations == {1, 2}

CallRequirements ==
    { [materialId |-> "m1", quantity |-> Num(500), unit |-> "g"],
      [materialId |-> "m1", quantity |-> Num(500), unit |-> "ml"] }

CallProducts ==
    {[ScenarioProduct EXCEPT !.materials = l] :
        l \in UNION {[1..k -> CallRequirements] : k \in 0..MaxRequirements}}

CallMaterialLists == {<<>>} \cup {<<m>> : m \in {x \in ListedMaterials : x.id = "m1"}}

materialDictionaryScope_shared(i) == 1

\* const materialDictionary = new Map(...): a local of the call, one Map per call
materialDictionaryScope(i) == i

\* the statements after the breakdown: the totals and the returned object
returnValue(p, lines) ==
    [ totalMaterialCost |-> totalMaterialCost(lines),
      totalCost |-> totalCost(p, totalMaterialCost(lines)),
      unitCost |-> unitCost(p, totalCost(p, totalMaterialCost(lines))),
      recommendedPrice |->
          recommendedPrice(p, unitCost(p, totalCost(p, totalMaterialCost(lines)))),
      breakdown |-> lines ]

InitConcurrent ==
    /\ material = Undefined
    /\ requirement = Undefined
    /\ product = Undefined
    /\ materials = <<>>
    /\ derived = Undefined
    /\ lineResult = Undefined
    /\ result = Undefined
    /\ targetUnit = "unit"
    /\ givenQuantity = Undefined
    /\ unitSystemResult = Undefined
    /\ baseResult = Undefined
    /\ roundTrip = Undefined
    /\ product2 = Undefined
    /\ materials2 = <<>>
    /\ result2 = Undefined
    /\ invocations \in
          [Invocations ->
              [ pc : {"called"}, product : CallProducts, materials : CallMaterialLists,
                breakdown : {<<>>}, ret : {Undefined} ]]
    /\ materialDictionaries = [i \in Invocations |-> Undefined]
    /\ storedMaterial = Undefined
    /\ storedProduct = Undefined
    /\ normalizedMaterial = Undefined
    /\ normalizedProduct = Undefined
    /\ rawMaterials = <<>>
    /\ products = <<>>
    /\ productsMemo = Undefined
    /\ materialError = FALSE
    /\ productError = FALSE
    /\ materialForm = Undefined
    /\ isMaterialModalOpen = FALSE
    /\ isSavingMaterial = FALSE
    /\ materialCall = Undefined
    /\ productForm = Undefined
    /\ isProductModalOpen = FALSE
    /\ isSavingProduct = FALSE
    /\ productCall = Undefined
    /\ toast = Undefined

\* const materialDictionary = new Map(materials.map(...))
BuildDictionary(i) ==
    /\ invocations[i].pc = "called"
    /\ materialDictionaries' =
          [materialDictionaries EXCEPT ![materialDictionaryScope(i)] = invocations[i].materials]
    /\ invocations' = [invocations EXCEPT ![i].pc = "mapping"]
    /\ UNCHANGED <<costVars, unitVars, pairVars, storeVars, pageVars, formVars>>

\* one round of the callback of product.materials.map
MapLine(i) ==
    /\ invocations[i].pc = "mapping"
    /\ Len(invocations[i].breakdown) < Len(invocations[i].product.materials)
    /\ invocations' =
          [invocations EXCEPT ![i].breakdown =
              Append(@, breakdown(invocations[i].product,
                                  materialDictionaries[materialDictionaryScope(i)])
                            [Len(@) + 1])]
    /\ UNCHANGED <<costVars, unitVars, pairVars, materialDictionaries, storeVars, pageVars, formVars>>

\* the totals and the return statement
Return(i) ==
    /\ invocations[i].pc = "mapping"
    /\ Len(invocations[i].breakdown) = Len(invocations[i].product.materials)
    /\ invocations' =
          [invocations EXCEPT ![i].pc = "returned",
                              ![i].ret = returnValue(invocations[i].product,
                                                     invocations[i].breakdown)]
    /\ UNCHANGED <<costVars, unitVars, pairVars, materialDictionaries, storeVars, pageVars, formVars>>

NextConcurrent ==
    \E i \in Invocations : BuildDictionary(i) \/ MapLine(i) \/ Return(i)

SpecConcurrent == InitConcurrent /\ [][NextConcurrent]_vars

----------------------------------------------------------------------------
(* Documents read from the store: normalizeRawMaterial and normalizeProduct *)

\* A value of a stored document carries what typeof gives for it.
JsUndefined == [typeof |-> "undefined"]

JsNull == [typeof |-> "object", isNull |-> TRUE]

JsString(s) == [typeof |-> "string", string |-> s]

JsNumber(x) == [typeof |-> "number", number |-> x]

JsArray(elements) == [typeof |-> "object", isArray |-> TRUE, elements |-> elements]

JsObject(fields) == [typeof |-> "object", fields |-> fields]

\* Array.isArray(value)
IsArray(value) == "isArray" \in DOMAIN value

\* value ?? fallback
Coalesce(value, fallback) ==
    IF value = JsUndefined \/ value = JsNull THEN fallback ELSE value

\* item.key for an item that is neither undefined nor null
Property(item, key) ==
    IF "fields" \in DOMAIN item /\ key \in DOMAIN item.fields
    THEN item.fields[key]
    ELSE JsUndefined

tags_anyArray(data) ==
    IF IsArray(data.tags) THEN data.tags ELSE JsArray(<<>>)

\* const tags = Array.isArray(data.tags) && data.tags.every(...) ? data.tags : []
tags(data) ==
    IF IsArray(data.tags)
         /\ \A i \in 1..Len(data.tags.elements) : data.tags.elements[i].typeof = "string"
    THEN data.tags
    ELSE JsArray(<<>>)

normalizeRawMaterial(id, data) ==
    [ id |-> id,
      name |-> data.name,
      description |-> Coalesce(data.description, JsString("")),
      purchasePrice |-> data.purchasePrice,
      purchaseQuantity |-> data.purchaseQuantity,
      purchaseUnit |-> data.purchaseUnit,
      salePrice |-> IF data.salePrice.typeof = "number" THEN data.salePrice ELSE JsUndefined,
      supplier |-> Coalesce(data.supplier, JsString("")),
      tags |-> tags(data),
      notes |-> Coalesce(data.notes, JsString("")),
      currency |-> Coalesce(data.currency, JsString("ARS")) ]

\* what the callback of data.materials.filter does with one entry: it keeps it,
\* drops it, or throws on reading a property of null
filterCallback(item) ==
    IF item = JsUndefined \/ item.typeof # "object" THEN "drop"
    ELSE IF item = JsNull THEN "TypeError"
    ELSE IF /\ Property(item, "materialId").typeof = "string"
            /\ Property(item, "quantity").typeof = "number"
            /\ Property(item, "unit").typeof = "string"
         THEN "keep"
         ELSE "drop"

RECURSIVE Kept(_)
\* the entries the callback keeps, in their order
Kept(entries) ==
    IF entries = <<>> THEN <<>>
    ELSE IF filterCallback(Head(entries)) = "keep"
         THEN <<Head(entries)>> \o Kept(Tail(entries))
         ELSE Kept(Tail(entries))

normalizeProduct(id, data) ==
    IF /\ IsArray(data.materials)
       /\ \E i \in 1..Len(data.materials.elements) :
             filterCallback(data.materials.elements[i]) = "TypeError"
    THEN [thrown |-> "TypeError"]
    ELSE [ id |-> id,
           name |-> data.name,
           description |-> Coalesce(data.description, JsString("")),
           batchSize |-> data.batchSize,
           batchUnit |-> data.batchUnit,
           materials |->
               IF IsArray(data.materials) /\ Len(data.materials.elements) # 0
               THEN JsArray(Kept(data.materials.elements))
               ELSE JsArray(<<>>),
           laborCost |-> data.laborCost,
           additionalCost |-> data.additionalCost,
           targetMargin |-> data.targetMargin,
           overrideSalePrice |->
               IF data.overrideSalePrice.typeof = "number"
               THEN data.overrideSalePrice ELSE JsUndefined ]

MaxStoredEntries == 2

StoredTags ==
    { JsUndefined, JsNull, JsString("a"), JsArray(<<>>), JsArray(<<JsString("a")>>),
      JsArray(<<JsString("a"), JsString("b")>>), JsArray(<<JsString("a"), JsNumber(One)>>) }

StoredRawMaterials ==
    [ name : {JsString("Harina")},
      description : {JsUndefined, JsString("000")},
      purchasePrice : {JsNumber(Num(1000)), JsString("1000"), JsUndefined},
      purchaseQuantity : {JsNumber(One), JsNull},
      purchaseUnit : {JsString("kg"), JsString("oz")},
      salePrice : {JsUndefined, JsNull, JsNumber(Num(3)), JsNumber(NaN), JsString("3")},
      supplier : {JsUndefined},
      tags : StoredTags,
      notes : {JsNull},
      currency : {JsUndefined, JsNull, JsString("USD"), JsString("")} ]

StoredEntries ==
    { JsUndefined, JsNull, JsString("m1"), JsArray(<<>>),
      JsObject([materialId |-> JsString("m1"), quantity |-> JsNumber(Num(500)),
                unit |-> JsString("g")]),
      JsObject([materialId |-> JsString("m2"), quantity |-> JsNumber(NaN),
                unit |-> JsString("oz")]),
      JsObject([materialId |-> JsString("m1"), quantity |-> JsString("500"),
                unit |-> JsString("g")]),
      JsObject([materialId |-> JsNumber(One), quantity |-> JsNumber(Num(500)),
                unit |-> JsString("g")]),
      JsObject([materialId |-> JsString("m1"), quantity |-> JsNumber(Num(500))]) }

StoredProducts ==
    [ name : {JsString("Pan")},
      description : {JsUndefined},
      batchSize : {JsNumber(Num(10))},
      batchUnit : {JsString("unidades")},
      materials :
          {JsUndefined, JsNull, JsString("m1")}
              \cup {JsArray(l) : l \in UNION {[1..k -> StoredEntries] : k \in 0..MaxStoredEntries}},
      laborCost : {JsNumber(Num(200))},
      additionalCost : {JsNumber(Num(50))},
      targetMargin : {JsNumber(Num(40))},
      overrideSalePrice : {JsUndefined, JsNumber(Num(3)), JsString("3")} ]

InitStore ==
    /\ material = Undefined
    /\ requirement = Undefined
    /\ product = Undefined
    /\ materials = <<>>
    /\ derived = Undefined
    /\ lineResult = Undefined
    /\ result = Undefined
    /\ targetUnit = "unit"
    /\ givenQuantity = Undefined
    /\ unitSystemResult = Undefined
    /\ baseResult = Undefined
    /\ roundTrip = Undefined
    /\ product2 = Undefined
    /\ materials2 = <<>>
    /\ result2 = Undefined
    /\ invocations = <<>>
    /\ materialDictionaries = <<>>
    /\ \/ storedMaterial \in StoredRawMaterials /\ storedProduct = Undefined
       \/ storedMaterial = Undefined /\ storedProduct \in StoredProducts
    /\ normalizedMaterial = Undefined
    /\ normalizedProduct = Undefined
    /\ rawMaterials = <<>>
    /\ products = <<>>
    /\ productsMemo = Undefined
    /\ materialError = FALSE
    /\ productError = FALSE
    /\ materialForm = Undefined
    /\ isMaterialModalOpen = FALSE
    /\ isSavingMaterial = FALSE
    /\ materialCall = Undefined
    /\ productForm = Undefined
    /\ isProductModalOpen = FALSE
    /\ isSavingProduct = FALSE
    /\ productCall = Undefined
    /\ toast = Undefined

\* document.id of the document read
DocumentId == "d1"

NormalizeRawMaterial ==
    /\ storedMaterial # Undefined
    /\ normalizedMaterial' = normalizeRawMaterial(DocumentId, storedMaterial)
    /\ UNCHANGED <<costVars, unitVars, pairVars, callVars,
                   storedMaterial, storedProduct, normalizedProduct, pageVars, formVars>>

NormalizeProduct ==
    /\ storedProduct # Undefined
    /\ normalizedProduct' = normalizeProduct(DocumentId, storedProduct)
    /\ UNCHANGED <<costVars, unitVars, pairVars, callVars,
                   storedMaterial, storedProduct, normalizedMaterial, pageVars, formVars>>

NextStore == NormalizeRawMaterial \/ NormalizeProduct

SpecStore == InitStore /\ [][NextStore]_vars

----------------------------------------------------------------------------
(* The page: snapshots of the store and the products it shows *)

Neg(x) == [n |-> -x.n, d |-> x.d]

\* a - b
Sub(a, b) == Add(a, Neg(b))

\* product.overrideSalePrice ?? costs.recommendedPrice
salePrice(p, costs) ==
    IF p.overrideSalePrice = Undefined THEN costs.recommendedPrice ELSE p.overrideSalePrice

margin_onCost(price, costs) ==
    IF Gt(price, Zero)
    THEN Mul(Div(Sub(price, costs.unitCost), costs.unitCost), Num(100))
    ELSE Zero

\* salePrice > 0 ? ((salePrice - costs.unitCost) / salePrice) * 100 : 0
margin(price, costs) ==
    IF Gt(price, Zero)
    THEN Mul(Div(Sub(price, costs.unitCost), price), Num(100))
    ELSE Zero

\* costs.breakdown.some((item) => !item.valid)
hasWarnings(costs) == \E i \in 1..Len(costs.breakdown) : ~costs.breakdown[i].valid

\* the object that the callback of products.map returns, costs being
\* calculateProductCosts(product, rawMaterials)
derivedOf(p, costs) ==
    [ product |-> p,
      costs |-> costs,
      salePrice |-> salePrice(p, costs),
      margin |-> margin(salePrice(p, costs), costs),
      hasWarnings |-> hasWarnings(costs) ]

\* the callback of products.map in productsWithDerived
withDerived(p, ms) ==
    CHOOSE entry \in {derivedOf(p, costs) : costs \in {calculateProductCosts(p, ms)}} : TRUE

productsWithDerived(ps, ms) == [i \in 1..Len(ps) |-> withDerived(ps[i], ms)]

dependencies_productsOnly(ps, ms) == <<ps>>

\* the dependency list of the useMemo of productsWithDerived
dependencies(ps, ms) == <<ps, ms>>

\* useMemo at a render: the kept value while the dependencies are the same
useMemo(kept, ps, ms) ==
    IF kept.dependencies = dependencies(ps, ms)
    THEN kept
    ELSE [dependencies |-> dependencies(ps, ms), value |-> productsWithDerived(ps, ms)]

MaxProducts == 1

PageMaterial(id, price, unit) ==
    [id |-> id, purchasePrice |-> price, purchaseQuantity |-> One, purchaseUnit |-> unit]

MaterialSnapshots ==
    { <<>>,
      <<PageMaterial("m1", Num(1000), "kg")>>,
      <<PageMaterial("m1", Num(1000), "kg"), PageMaterial("m2", Num(1000), "l")>>,
      <<PageMaterial("m2", Num(1000), "l")>>,
      <<PageMaterial("m1", Num(3), "kg")>> }

PageProduct(lines, labor, targetMargin, override) ==
    [ id |-> "p1", batchSize |-> Num(10), materials |-> lines,
      laborCost |-> labor, additionalCost |-> Num(50), targetMargin |-> targetMargin,
      overrideSalePrice |-> override ]

PageProducts ==
    { PageProduct(<<ScenarioRequirement>>, Num(200), Num(40), Undefined),
      PageProduct(<<ScenarioRequirement>>, Num(200), One, Undefined),
      PageProduct(<<ScenarioRequirement>>, Num(200), Zero, Undefined),
      PageProduct(<<ScenarioRequirement>>, Num(200), Num(40), Num(150)),
      PageProduct(<<ScenarioRequirement>>, Num(200), Num(40), Zero),
      PageProduct(<<[materialId |-> "m2", quantity |-> Num(500), unit |-> "ml"]>>,
                  Num(-50), Num(40), Undefined) }

ProductSnapshots == UNION {[1..k -> PageProducts] : k \in 0..MaxProducts}

InitPage ==
    /\ material = Undefined
    /\ requirement = Undefined
    /\ product = Undefined
    /\ materials = <<>>
    /\ derived = Undefined
    /\ lineResult = Undefined
    /\ result = Undefined
    /\ targetUnit = "unit"
    /\ givenQuantity = Undefined
    /\ unitSystemResult = Undefined
    /\ baseResult = Undefined
    /\ roundTrip = Undefined
    /\ product2 = Undefined
    /\ materials2 = <<>>
    /\ result2 = Undefined
    /\ invocations = <<>>
    /\ materialDictionaries = <<>>
    /\ storedMaterial = Undefined
    /\ storedProduct = Undefined
    /\ normalizedMaterial = Undefined
    /\ normalizedProduct = Undefined
    /\ rawMaterials = <<>>
    /\ products = <<>>
    \* the first render: products.map over no products
    /\ productsMemo = [dependencies |-> dependencies(<<>>, <<>>), value |-> <<>>]
    /\ materialError = FALSE
    /\ productError = FALSE
    /\ materialForm = Undefined
    /\ isMaterialModalOpen = FALSE
    /\ isSavingMaterial = FALSE
    /\ materialCall = Undefined
    /\ productForm = Undefined
    /\ isProductModalOpen = FALSE
    /\ isSavingProduct = FALSE
    /\ productCall = Undefined
    /\ toast = Undefined

\* the onNext callback of subscribeToRawMaterials
RawMaterialsSnapshot ==
    \E items \in MaterialSnapshots :
        /\ rawMaterials' = items
        /\ materialError' = FALSE
        /\ toast' = Undefined

\* the onError callback of subscribeToRawMaterials
RawMaterialsError ==
    /\ materialError' = TRUE
    /\ toast' = [title |-> "Error al sincronizar materias primas"]
    /\ UNCHANGED rawMaterials

\* a callback of subscribeToRawMaterials, and the render it causes
RawMaterialsSubscription ==
    /\ RawMaterialsSnapshot \/ RawMaterialsError
    /\ productsMemo' = useMemo(productsMemo, products, rawMaterials')
    /\ UNCHANGED <<costVars, unitVars, pairVars, callVars, storeVars, products,
                   productError, materialFormVars, productFormVars>>

\* the onNext callback of subscribeToProducts
ProductsSnapshot ==
    \E items \in ProductSnapshots :
        /\ products' = items
        /\ productError' = FALSE
        /\ toast' = Undefined

\* the onError callback of subscribeToProducts
ProductsError ==
    /\ productError' = TRUE
    /\ toast' = [title |-> "Error al sincronizar productos"]
    /\ UNCHANGED products

\* a callback of subscribeToProducts, and the render it causes
ProductsSubscription ==
    /\ ProductsSnapshot \/ ProductsError
    /\ productsMemo' = useMemo(productsMemo, products', rawMaterials)
    /\ UNCHANGED <<costVars, unitVars, pairVars, callVars, storeVars, rawMaterials,
                   materialError, materialFormVars, productFormVars>>

NextPage == RawMaterialsSubscription \/ ProductsSubscription

SpecPage == InitPage /\ [][NextPage]_vars

----------------------------------------------------------------------------
(* Texts of form fields: sequences of characters *)

Digits == <<"0", "1", "2", "3", "4", "5", "6", "7", "8", "9">>

IsDigit(c) == \E k \in 1..10 : Digits[k] = c

DigitValue(c) == (CHOOSE k \in 1..10 : Digits[k] = c) - 1

RECURSIVE trimStart(_)
trimStart(text) ==
    IF text # <<>> /\ Head(text) = " " THEN trimStart(Tail(text)) ELSE text

RECURSIVE trimEnd(_)
trimEnd(text) ==
    IF text # <<>> /\ text[Len(text)] = " "
    THEN trimEnd(SubSeq(text, 1, Len(text) - 1))
    ELSE text

\* text.trim()
trim(text) == trimEnd(trimStart(text))

InfinityText == <<"I", "n", "f", "i", "n", "i", "t", "y">>

NaNText == <<"N", "a", "N">>

Unsigned(text) ==
    IF text # <<>> /\ Head(text) \in {"+", "-"} THEN Tail(text) ELSE text

SignOf(text) == IF text # <<>> /\ Head(text) = "-" THEN -1 ELSE 1

\* digits with at most one decimal point and at least one digit
IsDecimalLiteral(text) ==
    /\ \A i \in 1..Len(text) : IsDigit(text[i]) \/ text[i] = "."
    /\ Cardinality({i \in 1..Len(text) : text[i] = "."}) <= 1
    /\ \E i \in 1..Len(text) : IsDigit(text[i])

RECURSIVE DigitsValue(_)
\* the whole number that the digits of the text spell, its decimal point left out
DigitsValue(text) ==
    IF text = <<>> THEN 0
    ELSE IF text[Len(text)] = "." THEN DigitsValue(SubSeq(text, 1, Len(text) - 1))
    ELSE 10 * DigitsValue(SubSeq(text, 1, Len(text) - 1)) + DigitValue(text[Len(text)])

\* the number of digits after the decimal point
FractionDigits(text) ==
    IF \E i \in 1..Len(text) : text[i] = "."
    THEN Len(text) - (CHOOSE i \in 1..Len(text) : text[i] = ".")
    ELSE 0

DecimalValue(sign, text) ==
    Round(Norm(sign * DigitsValue(text), 10^FractionDigits(text)))

\* Number(text), for texts without an exponent or a radix prefix
Number(text) ==
    IF trim(text) = <<>> THEN Zero
    ELSE IF Unsigned(trim(text)) = InfinityText
         THEN (IF SignOf(trim(text)) = 1 THEN Infinity ELSE Neg(Infinity))
    ELSE IF IsDecimalLiteral(Unsigned(trim(text)))
         THEN DecimalValue(SignOf(trim(text)), Unsigned(trim(text)))
    ELSE NaN

RECURSIVE NaturalText(_)
NaturalText(k) ==
    IF k < 10 THEN <<Digits[k + 1]>>
    ELSE NaturalText(k \div 10) \o <<Digits[(k % 10) + 1]>>

RECURSIVE FractionText(_, _)
\* the decimal digits of r / d, for 0 <= r < d and d a power of two
FractionText(r, d) ==
    IF r = 0 THEN <<>>
    ELSE <<Digits[((10 * r) \div d) + 1]>> \o FractionText((10 * r) % d, d)

\* x.toString(), for numbers whose decimal expansion is short
toString(x) ==
    IF x.d = 0
    THEN (IF x.n = 0 THEN NaNText
          ELSE IF x.n > 0 THEN InfinityText ELSE <<"-">> \o InfinityText)
    ELSE (IF x.n < 0 THEN <<"-">> ELSE <<>>)
            \o NaturalText(Abs(x.n) \div x.d)
            \o (IF Abs(x.n) % x.d = 0 THEN <<>>
                ELSE <<".">> \o FractionText(Abs(x.n) % x.d, x.d))

RECURSIVE split(_, _)
\* text.split(separator), for a separator of one character
split(text, separator) ==
    IF \E i \in 1..Len(text) : text[i] = separator
    THEN <<SubSeq(text, 1,
                  (CHOOSE i \in 1..Len(text) :
                      text[i] = separator /\ \A j \in 1..(i - 1) : text[j] # separator) - 1)>>
            \o split(SubSeq(text,
                            (CHOOSE i \in 1..Len(text) :
                                text[i] = separator /\ \A j \in 1..(i - 1) : text[j] # separator) + 1,
                            Len(text)),
                     separator)
    ELSE <<text>>

LowerCase == <<"a", "d", "r", "s", "u">>

UpperCase == <<"A", "D", "R", "S", "U">>

\* text.toUpperCase(), for the letters of LowerCase
toUpperCase(text) ==
    [ i \in 1..Len(text) |->
        IF \E k \in 1..Len(LowerCase) : LowerCase[k] = text[i]
        THEN UpperCase[CHOOSE k \in 1..Len(LowerCase) : LowerCase[k] = text[i]]
        ELSE text[i] ]

RECURSIVE join(_, _)
\* texts.join(separator)
join(texts, separator) ==
    IF texts = <<>> THEN <<>>
    ELSE IF Len(texts) = 1 THEN texts[1]
    ELSE texts[1] \o separator \o join(Tail(texts), separator)

\* a <= b
AtMost(a, b) == IsFinite(a) /\ IsFinite(b) /\ a.n * b.d <= b.n * a.d

----------------------------------------------------------------------------
(* The material form *)

Text_ARS == <<"A", "R", "S">>

defaultMaterialForm ==
    [ id |-> Undefined, name |-> <<>>, description |-> <<>>, purchasePrice |-> <<>>,
      purchaseQuantity |-> <<>>, purchaseUnit |-> "kg", salePrice |-> <<>>,
      supplier |-> <<>>, tags |-> <<>>, notes |-> <<>>, currency |-> Text_ARS ]

purchasePriceRejected_negativeOnly(purchasePrice) ==
    ~IsFinite(purchasePrice) \/ Gt(Zero, purchasePrice)

\* !Number.isFinite(purchasePrice) || purchasePrice <= 0
purchasePriceRejected(purchasePrice) ==
    ~IsFinite(purchasePrice) \/ AtMost(purchasePrice, Zero)

\* the title of the toast of the first check of handleMaterialSubmit that fails,
\* or undefined when all pass (titles without their accents)
materialRejection(form) ==
    IF trim(form.name) = <<>> THEN [title |-> "Falta el nombre"]
    ELSE IF purchasePriceRejected(Number(form.purchasePrice))
         THEN [title |-> "Precio invalido"]
    ELSE IF ~IsFinite(Number(form.purchaseQuantity))
                \/ AtMost(Number(form.purchaseQuantity), Zero)
         THEN [title |-> "Cantidad invalida"]
    ELSE IF form.salePrice # <<>>
                /\ (~IsFinite(Number(form.salePrice)) \/ AtMost(Number(form.salePrice), Zero))
         THEN [title |-> "Precio de venta invalido"]
    ELSE Undefined

\* materialForm.tags.split(",").map((tag) => tag.trim()).filter(Boolean)
tagList(text) ==
    SelectSeq([i \in 1..Len(split(text, ",")) |-> trim(split(text, ",")[i])],
              LAMBDA tag : tag # <<>>)

\* const payload of handleMaterialSubmit
materialPayload(form) ==
    [ name |-> trim(form.name),
      description |-> trim(form.description),
      purchasePrice |-> Number(form.purchasePrice),
      purchaseQuantity |-> Number(form.purchaseQuantity),
      purchaseUnit |-> form.purchaseUnit,
      salePrice |-> IF form.salePrice # <<>> THEN Number(form.salePrice) ELSE Undefined,
      supplier |-> trim(form.supplier),
      tags |-> tagList(form.tags),
      notes |-> trim(form.notes),
      currency |-> IF toUpperCase(trim(form.currency)) # <<>>
                   THEN toUpperCase(trim(form.currency)) ELSE Text_ARS ]

\* the persistence call of handleMaterialSubmit
materialPersistenceCall(form) ==
    IF form.id # Undefined
    THEN [operation |-> "updateRawMaterial", id |-> form.id, payload |-> materialPayload(form)]
    ELSE [operation |-> "createRawMaterial", id |-> Undefined, payload |-> materialPayload(form)]

\* the form that startMaterialEdition sets for a material of the list
materialEditionForm(m) ==
    [ id |-> m.id,
      name |-> m.name,
      description |-> IF m.description = Undefined THEN <<>> ELSE m.description,
      purchasePrice |-> toString(m.purchasePrice),
      purchaseQuantity |-> toString(m.purchaseQuantity),
      purchaseUnit |-> m.purchaseUnit,
      salePrice |-> IF m.salePrice = Undefined \/ m.salePrice = Zero \/ m.salePrice = NaN
                    THEN <<>> ELSE toString(m.salePrice),
      supplier |-> IF m.supplier = Undefined THEN <<>> ELSE m.supplier,
      tags |-> join(IF m.tags = Undefined THEN <<>> ELSE m.tags, <<",", " ">>),
      notes |-> IF m.notes = Undefined THEN <<>> ELSE m.notes,
      currency |-> IF m.currency = Undefined THEN Text_ARS ELSE m.currency ]

\* what can be typed into the fields of the material form
MaterialFieldTexts ==
    [ name |-> {<<" ">>, <<" ", "a", " ">>},
      purchasePrice |-> {<<"-", "1">>, <<"2">>, InfinityText},
      purchaseQuantity |-> {<<"0">>, <<"1", ".", "5">>},
      salePrice |-> {<<>>, <<"0">>, <<"5">>} ]

\* the materials of the list that can be edited
ListedForEdition ==
    << [ id |-> JsString("m1"), name |-> <<"a">>, description |-> <<>>,
         purchasePrice |-> Num(2), purchaseQuantity |-> Norm(3, 2), purchaseUnit |-> "kg",
         salePrice |-> Zero, supplier |-> <<>>, tags |-> <<<<"a">>, <<"d">>>>,
         notes |-> <<>>, currency |-> <<"u", "s", "d">> ] >>

InitMaterialForm ==
    /\ material = Undefined
    /\ requirement = Undefined
    /\ product = Undefined
    /\ materials = <<>>
    /\ derived = Undefined
    /\ lineResult = Undefined
    /\ result = Undefined
    /\ targetUnit = "unit"
    /\ givenQuantity = Undefined
    /\ unitSystemResult = Undefined
    /\ baseResult = Undefined
    /\ roundTrip = Undefined
    /\ product2 = Undefined
    /\ materials2 = <<>>
    /\ result2 = Undefined
    /\ invocations = <<>>
    /\ materialDictionaries = <<>>
    /\ storedMaterial = Undefined
    /\ storedProduct = Undefined
    /\ normalizedMaterial = Undefined
    /\ normalizedProduct = Undefined
    /\ rawMaterials = ListedForEdition
    /\ products = <<>>
    /\ productsMemo = Undefined
    /\ materialError = FALSE
    /\ productError = FALSE
    /\ materialForm = defaultMaterialForm
    /\ isMaterialModalOpen = FALSE
    /\ isSavingMaterial = FALSE
    /\ materialCall = Undefined
    /\ productForm = Undefined
    /\ isProductModalOpen = FALSE
    /\ isSavingProduct = FALSE
    /\ productCall = Undefined
    /\ toast = Undefined

OtherThanMaterialForm ==
    <<costVars, unitVars, pairVars, callVars, storeVars, pageVars, productFormVars>>

\* handleCreateMaterialClick
HandleCreateMaterialClick ==
    /\ materialForm' = defaultMaterialForm
    /\ isMaterialModalOpen' = TRUE
    /\ toast' = Undefined
    /\ UNCHANGED <<OtherThanMaterialForm, isSavingMaterial, materialCall>>

\* handleMaterialModalClose: Escape, the backdrop, or the cancel button while
\* it is enabled
HandleMaterialModalClose ==
    /\ isMaterialModalOpen
    /\ isMaterialModalOpen' = FALSE
    /\ materialForm' = defaultMaterialForm
    /\ toast' = Undefined
    /\ UNCHANGED <<OtherThanMaterialForm, isSavingMaterial, materialCall>>

\* startMaterialEdition
StartMaterialEdition ==
    \E i \in 1..Len(rawMaterials) :
        /\ materialForm' = materialEditionForm(rawMaterials[i])
        /\ isMaterialModalOpen' = TRUE
        /\ toast' = Undefined
        /\ UNCHANGED <<OtherThanMaterialForm, isSavingMaterial, materialCall>>

\* the onChange handlers of the inputs of the material form
ChangeMaterialField ==
    /\ isMaterialModalOpen
    /\ \E field \in DOMAIN MaterialFieldTexts :
          \E text \in MaterialFieldTexts[field] :
              materialForm' = [materialForm EXCEPT ![field] = text]
    /\ toast' = Undefined
    /\ UNCHANGED <<OtherThanMaterialForm, isMaterialModalOpen, isSavingMaterial,
                   materialCall>>

\* handleMaterialSubmit up to its await; the submit button is disabled while
\* isSavingMaterial
HandleMaterialSubmit ==
    /\ isMaterialModalOpen
    /\ ~isSavingMaterial
    /\ IF materialRejection(materialForm) # Undefined
       THEN /\ toast' = materialRejection(materialForm)
            /\ UNCHANGED <<materialForm, isMaterialModalOpen, isSavingMaterial, materialCall>>
       ELSE /\ isSavingMaterial' = TRUE
            /\ materialCall' = materialPersistenceCall(materialForm)
            /\ toast' = Undefined
            /\ UNCHANGED <<materialForm, isMaterialModalOpen>>
    /\ UNCHANGED OtherThanMaterialForm

\* handleMaterialSubmit after its await, the call having succeeded
MaterialSaved ==
    /\ materialCall # Undefined
    /\ toast' = [title |-> IF materialCall.operation = "updateRawMaterial"
                           THEN "Materia prima actualizada" ELSE "Materia prima creada"]
    /\ isMaterialModalOpen' = FALSE
    /\ materialForm' = defaultMaterialForm
    /\ isSavingMaterial' = FALSE
    /\ materialCall' = Undefined
    /\ UNCHANGED OtherThanMaterialForm

MaterialSaveFailed_noFinally ==
    /\ materialCall # Undefined
    /\ toast' = [title |-> "No se pudo guardar la materia prima"]
    /\ materialCall' = Undefined
    /\ UNCHANGED <<OtherThanMaterialForm, materialForm, isMaterialModalOpen, isSavingMaterial>>

\* handleMaterialSubmit after its await, the call having failed
MaterialSaveFailed ==
    /\ materialCall # Undefined
    /\ toast' = [title |-> "No se pudo guardar la materia prima"]
    /\ isSavingMaterial' = FALSE
    /\ materialCall' = Undefined
    /\ UNCHANGED <<OtherThanMaterialForm, materialForm, isMaterialModalOpen>>

NextMaterialForm ==
    \/ HandleCreateMaterialClick
    \/ HandleMaterialModalClose
    \/ StartMaterialEdition
    \/ ChangeMaterialField
    \/ HandleMaterialSubmit
    \/ MaterialSaved
    \/ MaterialSaveFailed

SpecMaterialForm == InitMaterialForm /\ [][NextMaterialForm]_vars

----------------------------------------------------------------------------
(* The product form of Home *)

MaxFormLines == 2

\* crypto.randomUUID(): an id that no row of the form has
randomUUID(rows) ==
    CHOOSE n \in 1..(Len(rows) + 1) :
        /\ \A i \in 1..Len(rows) : rows[i].id # n
        /\ \A k \in 1..(n - 1) : \E i \in 1..Len(rows) : rows[i].id = k

\* createMaterialRow, next to the rows the form holds
createMaterialRow(rows) ==
    [id |-> randomUUID(rows), materialId |-> "", quantity |-> <<>>, unit |-> "g"]

defaultProductForm ==
    [ id |-> Undefined, name |-> <<>>, description |-> <<>>, batchSize |-> <<>>,
      batchUnit |-> "unidades", laborCost |-> <<>>, additionalCost |-> <<>>,
      targetMargin |-> <<"4", "0">>, overrideSalePrice |-> <<>>,
      materials |-> <<createMaterialRow(<<>>)>> ]

lineOrNull_anyQuantity(line) ==
    IF line.materialId = ""
    THEN JsNull
    ELSE [materialId |-> line.materialId, quantity |-> Number(line.quantity),
          unit |-> line.unit]

\* the callback of productForm.materials.map in handleProductSubmit
lineOrNull(line) ==
    IF line.materialId = "" \/ ~IsFinite(Number(line.quantity))
            \/ AtMost(Number(line.quantity), Zero)
    THEN JsNull
    ELSE [materialId |-> line.materialId, quantity |-> Number(line.quantity),
          unit |-> line.unit]

\* const materialsLines of handleProductSubmit
materialsLines(form) ==
    SelectSeq([i \in 1..Len(form.materials) |-> lineOrNull(form.materials[i])],
              LAMBDA line : line # JsNull)

\* Number(text || 0)
NumberOrZero(text) == IF text # <<>> THEN Number(text) ELSE Zero

\* the title of the toast of the first check of handleProductSubmit that fails,
\* or undefined when all pass (titles without their accents)
productRejection(form) ==
    IF trim(form.name) = <<>> THEN [title |-> "Falta el nombre del producto"]
    ELSE IF ~IsFinite(Number(form.batchSize)) \/ AtMost(Number(form.batchSize), Zero)
         THEN [title |-> "Lote invalido"]
    ELSE IF Len(materialsLines(form)) = 0
         THEN [title |-> "Faltan materias primas"]
    ELSE Undefined

\* const payload of handleProductSubmit
productPayload(form) ==
    LET laborCost == NumberOrZero(form.laborCost)
        additionalCost == NumberOrZero(form.additionalCost)
        targetMargin == NumberOrZero(form.targetMargin)
        overrideSalePrice ==
            IF form.overrideSalePrice # <<>> THEN Number(form.overrideSalePrice)
            ELSE Undefined
    IN  [ name |-> trim(form.name),
          description |-> trim(form.description),
          batchSize |-> Number(form.batchSize),
          batchUnit |-> form.batchUnit,
          materials |-> materialsLines(form),
          laborCost |-> IF IsFinite(laborCost) THEN laborCost ELSE Zero,
          additionalCost |-> IF IsFinite(additionalCost) THEN additionalCost ELSE Zero,
          targetMargin |-> IF IsFinite(targetMargin) THEN targetMargin ELSE Zero,
          overrideSalePrice |->
              IF /\ overrideSalePrice # Undefined
                 /\ overrideSalePrice # Zero
                 /\ overrideSalePrice # NaN
                 /\ IsFinite(overrideSalePrice)
              THEN overrideSalePrice ELSE Undefined ]

\* the persistence call of handleProductSubmit
productPersistenceCall(form) ==
    IF form.id # Undefined
    THEN [operation |-> "updateProduct", id |-> form.id, payload |-> productPayload(form)]
    ELSE [operation |-> "createProduct", id |-> Undefined, payload |-> productPayload(form)]

RECURSIVE editionRows(_)
\* product.materials.map of startProductEdition, each row with an id of its own
editionRows(items) ==
    IF items = <<>> THEN <<>>
    ELSE LET rows == editionRows(SubSeq(items, 1, Len(items) - 1))
             item == items[Len(items)]
         IN  Append(rows, [ id |-> randomUUID(rows), materialId |-> item.materialId,
                            quantity |-> toString(item.quantity), unit |-> item.unit ])

\* the form that startProductEdition sets for a product of the list
productEditionForm(p) ==
    [ id |-> p.id,
      name |-> p.name,
      description |-> IF p.description = Undefined THEN <<>> ELSE p.description,
      batchSize |-> toString(p.batchSize),
      batchUnit |-> p.batchUnit,
      laborCost |-> toString(p.laborCost),
      additionalCost |-> toString(p.additionalCost),
      targetMargin |-> toString(p.targetMargin),
      overrideSalePrice |->
          IF \/ p.overrideSalePrice = Undefined
             \/ p.overrideSalePrice = Zero
             \/ p.overrideSalePrice = NaN
          THEN <<>> ELSE toString(p.overrideSalePrice),
      materials |-> IF Len(p.materials) > 0 THEN editionRows(p.materials)
                    ELSE <<createMaterialRow(<<>>)>> ]

\* rawMaterials.find((material) => material.id === id)
getMaterialById(ms, id) ==
    IF \E j \in 1..Len(ms) : ms[j].id = id
    THEN ms[CHOOSE j \in 1..Len(ms) :
                /\ ms[j].id = id
                /\ \A k \in 1..(j - 1) : ms[k].id # id]
    ELSE Undefined

MASS_UNITS == <<"g", "kg">>

VOLUME_UNITS == <<"ml", "l">>

PIECE_UNITS == <<"unit">>

getUnitOptionsForSystem(unit) ==
    IF getUnitSystem(unit) = "mass" THEN MASS_UNITS
    ELSE IF getUnitSystem(unit) = "volume" THEN VOLUME_UNITS
    ELSE PIECE_UNITS

getSuggestedUnit(purchaseUnit) ==
    IF purchaseUnit = "kg" THEN "g"
    ELSE IF purchaseUnit = "l" THEN "ml"
    ELSE purchaseUnit

\* includes
Includes(list, value) == \E i \in 1..Len(list) : list[i] = value

\* the row that updateProductMaterialField puts in the place of the row item
updatedRow(ms, item, field, value) ==
    IF field = "materialId"
    THEN LET selectedMaterial == getMaterialById(ms, value)
             allowedUnits == IF selectedMaterial # Undefined
                             THEN getUnitOptionsForSystem(selectedMaterial.purchaseUnit)
                             ELSE MASS_UNITS
             nextUnit == IF selectedMaterial # Undefined /\ ~Includes(allowedUnits, item.unit)
                         THEN getSuggestedUnit(selectedMaterial.purchaseUnit)
                         ELSE item.unit
         IN  [item EXCEPT !.materialId = value, !.unit = nextUnit]
    ELSE IF field = "unit"
    THEN [item EXCEPT !.unit = value]
    ELSE [item EXCEPT ![field] = value]

\* the updater of updateProductMaterialField
updateProductMaterialField(prev, ms, id, field, value) ==
    [prev EXCEPT !.materials =
        [i \in 1..Len(prev.materials) |->
            IF prev.materials[i].id # id THEN prev.materials[i]
            ELSE updatedRow(ms, prev.materials[i], field, value)]]

\* the updater of addMaterialLine
addMaterialLine(prev) ==
    [prev EXCEPT !.materials = Append(prev.materials, createMaterialRow(prev.materials))]

removeMaterialLine_unguarded(prev, id) ==
    [prev EXCEPT !.materials = SelectSeq(prev.materials, LAMBDA item : item.id # id)]

\* the updater of removeMaterialLine
removeMaterialLine(prev, id) ==
    [prev EXCEPT !.materials =
        IF Len(prev.materials) > 1
        THEN SelectSeq(prev.materials, LAMBDA item : item.id # id)
        ELSE prev.materials]

\* what can be typed into the fields of the product form
ProductFieldTexts ==
    [ name |-> {<<" ", "p">>},
      batchSize |-> {<<"1", "0">>} ]

\* what can be chosen or typed in a row of the product form: a material of the
\* list, a quantity, a unit
RowFieldTexts(ms) ==
    [ materialId |-> {ms[j].id : j \in 1..Len(ms)},
      quantity |-> {<<"2">>},
      unit |-> {"ml"} ]

\* the materials of the list while the product form is used
ProductFormMaterials == <<PageMaterial("m2", Num(1000), "l")>>

\* the lists of products that can be edited: a product without materials, or
\* a product with a material
ListedProducts ==
    { << [ id |-> JsString("p1"), name |-> <<" ", "p">>, description |-> Undefined,
           batchSize |-> Num(10), batchUnit |-> "unidades", materials |-> <<>>,
           laborCost |-> Zero, additionalCost |-> Zero, targetMargin |-> Num(40),
           overrideSalePrice |-> Undefined ] >>,
      << [ id |-> JsString("p2"), name |-> <<" ", "p">>, description |-> Undefined,
           batchSize |-> Num(10), batchUnit |-> "unidades",
           materials |-> <<[materialId |-> "m2", quantity |-> Num(3), unit |-> "ml"]>>,
           laborCost |-> Zero, additionalCost |-> Zero, targetMargin |-> Num(40),
           overrideSalePrice |-> Zero ] >> }

InitProductForm ==
    /\ material = Undefined
    /\ requirement = Undefined
    /\ product = Undefined
    /\ materials = <<>>
    /\ derived = Undefined
    /\ lineResult = Undefined
    /\ result = Undefined
    /\ targetUnit = "unit"
    /\ givenQuantity = Undefined
    /\ unitSystemResult = Undefined
    /\ baseResult = Undefined
    /\ roundTrip = Undefined
    /\ product2 = Undefined
    /\ materials2 = <<>>
    /\ result2 = Undefined
    /\ invocations = <<>>
    /\ materialDictionaries = <<>>
    /\ storedMaterial = Undefined
    /\ storedProduct = Undefined
    /\ normalizedMaterial = Undefined
    /\ normalizedProduct = Undefined
    /\ rawMaterials = ProductFormMaterials
    /\ products \in ListedProducts
    /\ productsMemo = Undefined
    /\ materialError = FALSE
    /\ productError = FALSE
    /\ materialForm = Undefined
    /\ isMaterialModalOpen = FALSE
    /\ isSavingMaterial = FALSE
    /\ materialCall = Undefined
    /\ productForm = defaultProductForm
    /\ isProductModalOpen = FALSE
    /\ isSavingProduct = FALSE
    /\ productCall = Undefined
    /\ toast = Undefined

OtherThanProductForm ==
    <<costVars, unitVars, pairVars, callVars, storeVars, pageVars, materialFormVars>>

\* handleCreateProductClick
HandleCreateProductClick ==
    /\ productForm' = defaultProductForm
    /\ isProductModalOpen' = TRUE
    /\ toast' = Undefined
    /\ UNCHANGED <<OtherThanProductForm, isSavingProduct, productCall>>

\* handleProductModalClose: Escape, the backdrop, or the cancel button while
\* it is enabled
HandleProductModalClose ==
    /\ isProductModalOpen
    /\ isProductModalOpen' = FALSE
    /\ productForm' = defaultProductForm
    /\ toast' = Undefined
    /\ UNCHANGED <<OtherThanProductForm, isSavingProduct, productCall>>

\* startProductEdition
StartProductEdition ==
    \E i \in 1..Len(products) :
        /\ productForm' = productEditionForm(products[i])
        /\ isProductModalOpen' = TRUE
        /\ toast' = Undefined
        /\ UNCHANGED <<OtherThanProductForm, isSavingProduct, productCall>>

\* the onChange handlers of the inputs of the product form
ChangeProductField ==
    /\ isProductModalOpen
    /\ \E field \in DOMAIN ProductFieldTexts :
          \E text \in ProductFieldTexts[field] :
              productForm' = [productForm EXCEPT ![field] = text]
    /\ toast' = Undefined
    /\ UNCHANGED <<OtherThanProductForm, isProductModalOpen, isSavingProduct,
                   productCall>>

\* updateProductMaterialField, from the inputs of a row of the form
UpdateProductMaterialField ==
    /\ isProductModalOpen
    /\ \E i \in 1..Len(productForm.materials) :
          \E field \in DOMAIN RowFieldTexts(rawMaterials) :
              \E value \in RowFieldTexts(rawMaterials)[field] :
                  productForm' = updateProductMaterialField(
                      productForm, rawMaterials, productForm.materials[i].id, field, value)
    /\ toast' = Undefined
    /\ UNCHANGED <<OtherThanProductForm, isProductModalOpen, isSavingProduct,
                   productCall>>

\* addMaterialLine
AddMaterialLine ==
    /\ isProductModalOpen
    /\ Len(productForm.materials) < MaxFormLines
    /\ productForm' = addMaterialLine(productForm)
    /\ toast' = Undefined
    /\ UNCHANGED <<OtherThanProductForm, isProductModalOpen, isSavingProduct,
                   productCall>>

\* removeMaterialLine, from the button of a row of the form
RemoveMaterialLine ==
    /\ isProductModalOpen
    /\ \E i \in 1..Len(productForm.materials) :
          productForm' = removeMaterialLine(productForm, productForm.materials[i].id)
    /\ toast' = Undefined
    /\ UNCHANGED <<OtherThanProductForm, isProductModalOpen, isSavingProduct,
                   productCall>>

\* handleProductSubmit up to its await; the submit button is disabled while
\* isSavingProduct
HandleProductSubmit ==
    /\ isProductModalOpen
    /\ ~isSavingProduct
    /\ IF productRejection(productForm) # Undefined
       THEN /\ toast' = productRejection(productForm)
            /\ UNCHANGED <<productForm, isProductModalOpen, isSavingProduct, productCall>>
       ELSE /\ isSavingProduct' = TRUE
            /\ productCall' = productPersistenceCall(productForm)
            /\ toast' = Undefined
            /\ UNCHANGED <<productForm, isProductModalOpen>>
    /\ UNCHANGED OtherThanProductForm

\* handleProductSubmit after its await, the call having succeeded
ProductSaved ==
    /\ productCall # Undefined
    /\ toast' = [title |-> IF productCall.operation = "updateProduct"
                           THEN "Producto actualizado" ELSE "Producto creado"]
    /\ isProductModalOpen' = FALSE
    /\ productForm' = defaultProductForm
    /\ isSavingProduct' = FALSE
    /\ productCall' = Undefined
    /\ UNCHANGED OtherThanProductForm

\* handleProductSubmit after its await, the call having failed
ProductSaveFailed ==
    /\ productCall # Undefined
    /\ toast' = [title |-> "No se pudo guardar el producto"]
    /\ isSavingProduct' = FALSE
    /\ productCall' = Undefined
    /\ UNCHANGED <<OtherThanProductForm, productForm, isProductModalOpen>>

NextProductForm ==
    \/ HandleCreateProductClick
    \/ HandleProductModalClose
    \/ StartProductEdition
    \/ ChangeProductField
    \/ UpdateProductMaterialField
    \/ AddMaterialLine
    \/ RemoveMaterialLine
    \/ HandleProductSubmit
    \/ ProductSaved
    \/ ProductSaveFailed

SpecProductForm == InitProductForm /\ [][NextProductForm]_vars

----------------------------------------------------------------------------
(* The two forms of Home, filled by the editions and saved *)

InitSaving ==
    /\ material = Undefined
    /\ requirement = Undefined
    /\ product = Undefined
    /\ materials = <<>>
    /\ derived = Undefined
    /\ lineResult = Undefined
    /\ result = Undefined
    /\ targetUnit = "unit"
    /\ givenQuantity = Undefined
    /\ unitSystemResult = Undefined
    /\ baseResult = Undefined
    /\ roundTrip = Undefined
    /\ product2 = Undefined
    /\ materials2 = <<>>
    /\ result2 = Undefined
    /\ invocations = <<>>
    /\ materialDictionaries = <<>>
    /\ storedMaterial = Undefined
    /\ storedProduct = Undefined
    /\ normalizedMaterial = Undefined
    /\ normalizedProduct = Undefined
    /\ rawMaterials = ListedForEdition
    /\ products \in ListedProducts
    /\ productsMemo = Undefined
    /\ materialError = FALSE
    /\ productError = FALSE
    /\ materialForm = defaultMaterialForm
    /\ isMaterialModalOpen = FALSE
    /\ isSavingMaterial = FALSE
    /\ materialCall = Undefined
    /\ productForm = defaultProductForm
    /\ isProductModalOpen = FALSE
    /\ isSavingProduct = FALSE
    /\ productCall = Undefined
    /\ toast = Undefined

\* the promise of updateRawMaterial or createRawMaterial settles
MaterialSettles == MaterialSaved \/ MaterialSaveFailed

\* the promise of updateProduct or createProduct settles
ProductSettles == ProductSaved \/ ProductSaveFailed

NextSaving ==
    \/ HandleCreateMaterialClick
    \/ HandleMaterialModalClose
    \/ StartMaterialEdition
    \/ HandleMaterialSubmit
    \/ MaterialSaved
    \/ MaterialSaveFailed
    \/ HandleCreateProductClick
    \/ HandleProductModalClose
    \/ StartProductEdition
    \/ HandleProductSubmit
    \/ ProductSaved
    \/ ProductSaveFailed

\* every persistence call settles
SpecSaving ==
    /\ InitSaving
    /\ [][NextSaving]_vars
    /\ WF_vars(MaterialSettles)
    /\ WF_vars(ProductSettles)

----------------------------------------------------------------------------
(* Properties of calculateProductCosts, under Spec *)

\* the cost fields of a sequence of breakdown lines, added in list order
RECURSIVE SumCosts(_)
SumCosts(lines) ==
    IF lines = <<>> THEN Zero
    ELSE Add(SumCosts(SubSeq(lines, 1, Len(lines) - 1)), lines[Len(lines)].cost)

ValidLines(lines) == SelectSeq(lines, LAMBDA line : line.valid)

IsScenario == product = ScenarioProduct /\ materials = <<ScenarioMaterial>>

\* C1: recommendedPrice is unitCost * (1 + targetMargin / 100) when targetMargin > 0
\* and unitCost otherwise; the scenario (1000 for 1 kg, 500 g, batch 10, labor 200,
\* additional 50, margin 40) gives 500, 750, 75 and 105.
C1_RecommendedPrice ==
    result # Undefined =>
        /\ Gt(product.targetMargin, Zero) =>
              result.recommendedPrice =
                  Mul(result.unitCost, Add(One, Div(product.targetMargin, Num(100))))
        /\ ~Gt(product.targetMargin, Zero) => result.recommendedPrice = result.unitCost
        /\ IsScenario =>
              /\ result.totalMaterialCost = Num(500)
              /\ result.totalCost = Num(750)
              /\ result.unitCost = Num(75)
              /\ result.recommendedPrice = Num(105)

C1_Witness ==
    /\ result # Undefined
    /\ IsScenario
    /\ result.recommendedPrice = Num(105)

\* C2: totalMaterialCost is the sum of the cost fields of all breakdown lines; the
\* invalid lines contribute 0, so it is also the sum over the valid lines, and it
\* is a finite number.
C2_TotalMaterialCostIsSum ==
    result # Undefined =>
        /\ result.totalMaterialCost = SumCosts(result.breakdown)
        /\ \A i \in 1..Len(result.breakdown) :
              ~result.breakdown[i].valid => result.breakdown[i].cost = Zero
        /\ result.totalMaterialCost = SumCosts(ValidLines(result.breakdown))
        /\ IsFinite(result.totalMaterialCost)

C2_Witness ==
    /\ result # Undefined
    /\ Len(result.breakdown) = 2
    /\ ~result.breakdown[2].valid
    /\ result.breakdown[1].valid
    /\ result.breakdown[1].cost # Zero
    /\ result.totalMaterialCost = result.breakdown[1].cost

\* C3: totalCost is totalMaterialCost + laborCost + additionalCost.
C3_TotalCost ==
    result # Undefined =>
        result.totalCost =
            Add(Add(result.totalMaterialCost, product.laborCost), product.additionalCost)

C3_Witness ==
    /\ result # Undefined
    /\ result.totalMaterialCost # Zero
    /\ product.laborCost # Zero
    /\ product.additionalCost # Zero
    /\ result.totalCost = Num(750)

\* C4: unitCost is totalCost / batchSize when batchSize > 0 and totalCost when
\* batchSize <= 0; it is never the outcome of a division by zero.
C4_UnitCost ==
    result # Undefined =>
        /\ Gt(product.batchSize, Zero) =>
              result.unitCost = Div(result.totalCost, product.batchSize)
        /\ ~Gt(product.batchSize, Zero) => result.unitCost = result.totalCost
        /\ IsFinite(result.unitCost)

C4_Witness ==
    /\ result # Undefined
    /\ product.batchSize = Zero
    /\ result.totalCost = Num(750)
    /\ result.unitCost = Num(750)

\* C6: a requirement whose materialId is the id of no supplied material gives a
\* line with cost 0, valid = false and the not-found warning, whatever its
\* quantity and unit.
C6_MissingMaterial ==
    result # Undefined =>
        \A i \in 1..Len(product.materials) :
            (\A j \in 1..Len(materials) : materials[j].id # product.materials[i].materialId)
            => /\ result.breakdown[i].cost = Zero
               /\ result.breakdown[i].valid = FALSE
               /\ result.breakdown[i].warning = NotFoundWarning

C6_Witness ==
    /\ result # Undefined
    /\ Len(materials) > 0
    /\ \E i \in 1..Len(product.materials) :
          /\ \A j \in 1..Len(materials) : materials[j].id # product.materials[i].materialId
          /\ product.materials[i].quantity = Num(500)
          /\ result.breakdown[i].warning = NotFoundWarning

\* C15: the breakdown has one line per entry of product.materials, in the same
\* order, and line i carries the materialId, quantity and unit of requirement i
\* as entered.
C15_BreakdownLines ==
    result # Undefined =>
        /\ Len(result.breakdown) = Len(product.materials)
        /\ \A i \in 1..Len(product.materials) :
              /\ result.breakdown[i].materialId = product.materials[i].materialId
              /\ result.breakdown[i].quantity = product.materials[i].quantity
              /\ result.breakdown[i].unit = product.materials[i].unit

C15_Witness ==
    /\ result # Undefined
    /\ Len(result.breakdown) = 2
    /\ product.materials[1] = [materialId |-> "m2", quantity |-> Num(2), unit |-> "kg"]
    /\ product.materials[2] = [materialId |-> "m1", quantity |-> Num(500), unit |-> "g"]
    /\ result.breakdown[1].materialId = "m2"
    /\ result.breakdown[1].quantity = Num(2)
    /\ result.breakdown[1].cost = Num(2000)

\* the positions of the supplied materials that have the given id
Positions(id) == {j \in 1..Len(materials) : materials[j].id = id}

Last(S) == CHOOSE j \in S : \A k \in S : k <= j

\* C17: when several supplied materials share an id, every requirement that
\* references the id is priced with the last of them.
C17_LastMaterialWins ==
    result # Undefined =>
        \A i \in 1..Len(product.materials) :
            Positions(product.materials[i].materialId) # {} =>
                LET r == getProductMaterialCost(
                            materials[Last(Positions(product.materials[i].materialId))],
                            product.materials[i])
                IN  /\ result.breakdown[i].cost = r.cost
                    /\ result.breakdown[i].valid = r.valid
                    /\ result.breakdown[i].warning = r.warning

C17_Witness ==
    /\ result # Undefined
    /\ Len(materials) = 2
    /\ materials[1].id = "m1" /\ materials[1].purchaseUnit = "kg"
    /\ materials[2].id = "m1" /\ materials[2].purchaseUnit = "l"
    /\ Len(product.materials) = 1
    /\ product.materials[1] = [materialId |-> "m1", quantity |-> Num(500), unit |-> "ml"]
    /\ result.breakdown[1].valid
    /\ result.breakdown[1].cost = Num(500)

----------------------------------------------------------------------------
(* Properties of getProductMaterialCost, under SpecLine *)

SameSystem ==
    /\ material # Undefined
    /\ getUnitSystem(requirement.unit) = getUnitSystem(material.purchaseUnit)

OtherSystem ==
    /\ material # Undefined
    /\ getUnitSystem(requirement.unit) # getUnitSystem(material.purchaseUnit)

\* the requirement quantity in grams, millilitres or pieces
RequirementBaseQuantity ==
    IF requirement.unit \in {"kg", "l"}
    THEN Mul(Num(1000), requirement.quantity)
    ELSE requirement.quantity

\* C5: for a material that exists and a requirement of its unit system, the line
\* is valid, has no warning, and costs pricePerBaseUnit * base quantity.
C5_CompatibleCost ==
    (lineResult # Undefined /\ SameSystem) =>
        /\ lineResult.valid = TRUE
        /\ lineResult.warning = Undefined
        /\ lineResult.cost =
              Mul(getMaterialDerivedValues(material).pricePerBaseUnit,
                  RequirementBaseQuantity)

C5_Witness ==
    /\ lineResult # Undefined
    /\ material = ScenarioMaterial
    /\ requirement.unit = "kg"
    /\ requirement.quantity = Norm(1, 2)
    /\ lineResult.valid
    /\ lineResult.cost = Num(500)

\* C7: when the unit system of the requirement differs from the one of the
\* material's purchase unit, the line has cost 0, valid = false and the
\* incompatible-unit warning.
C7_IncompatibleUnit ==
    (lineResult # Undefined /\ OtherSystem) =>
        /\ lineResult.cost = Zero
        /\ lineResult.valid = FALSE
        /\ lineResult.warning = IncompatibleWarning

C7_Witness ==
    /\ lineResult # Undefined
    /\ material = ScenarioMaterial
    /\ requirement.unit = "ml"
    /\ requirement.quantity = Num(500)
    /\ lineResult.cost = Zero
    /\ lineResult.warning = IncompatibleWarning

\* a zero or negative purchase or requirement quantity, a missing material or
\* a unit mismatch
Degenerate ==
    \/ material = Undefined
    \/ OtherSystem
    \/ ~Gt(material.purchaseQuantity, Zero)
    \/ ~Gt(requirement.quantity, Zero)

\* C19 as stated: every degenerate input gives a line with cost 0 and valid =
\* false that carries a warning.
C19_DegenerateAsStated ==
    (lineResult # Undefined /\ Degenerate) =>
        /\ lineResult.cost = Zero
        /\ lineResult.valid = FALSE
        /\ lineResult.warning # Undefined

\* C19 amended: the line result is always a finite cost with a validity flag; a
\* missing material or a unit mismatch gives cost 0, valid = false and a warning;
\* a purchase quantity <= 0 of a compatible material gives cost 0 on a valid line
\* without warning; a requirement quantity <= 0 gives a valid line without
\* warning whose cost is pricePerBaseUnit * base quantity.
C19_Degenerate ==
    lineResult # Undefined =>
        /\ IsFinite(lineResult.cost)
        /\ lineResult.valid \in BOOLEAN
        /\ (material = Undefined \/ OtherSystem) =>
              /\ lineResult.cost = Zero
              /\ lineResult.valid = FALSE
              /\ lineResult.warning \in {NotFoundWarning, IncompatibleWarning}
        /\ (SameSystem /\ ~Gt(material.purchaseQuantity, Zero)) =>
              /\ lineResult.cost = Zero
              /\ lineResult.valid = TRUE
              /\ lineResult.warning = Undefined
        /\ (SameSystem /\ Gt(material.purchaseQuantity, Zero)
                /\ ~Gt(requirement.quantity, Zero)) =>
              /\ lineResult.cost =
                    Mul(Div(material.purchasePrice,
                            convertToBaseUnit(material.purchaseQuantity, material.purchaseUnit)),
                        RequirementBaseQuantity)
              /\ ~Gt(lineResult.cost, Zero)
              /\ lineResult.valid = TRUE
              /\ lineResult.warning = Undefined

C19_Witness ==
    /\ lineResult # Undefined
    /\ material # Undefined
    /\ material.purchaseQuantity = Num(-1)
    /\ material.purchasePrice = Num(1000)
    /\ material.purchaseUnit = "kg"
    /\ requirement.quantity = Num(500)
    /\ requirement.unit = "g"
    /\ lineResult.valid
    /\ lineResult.cost = Zero

----------------------------------------------------------------------------
(* Properties of getMaterialDerivedValues, under SpecDerived *)

\* the purchase quantity in grams, millilitres or pieces
PurchaseBaseQuantity ==
    IF material.purchaseUnit \in {"kg", "l"}
    THEN Mul(Num(1000), material.purchaseQuantity)
    ELSE material.purchaseQuantity

\* C8: pricePerBaseUnit is purchasePrice / baseQuantity when the base quantity is
\* > 0 and 0 otherwise; it is never the outcome of a division by zero.
C8_PricePerBaseUnit ==
    derived # Undefined =>
        /\ derived.baseQuantity = PurchaseBaseQuantity
        /\ Gt(PurchaseBaseQuantity, Zero) =>
              derived.pricePerBaseUnit = Div(material.purchasePrice, PurchaseBaseQuantity)
        /\ ~Gt(PurchaseBaseQuantity, Zero) => derived.pricePerBaseUnit = Zero
        /\ IsFinite(derived.pricePerBaseUnit)

C8_Witness ==
    /\ derived # Undefined
    /\ material.purchaseQuantity = Zero
    /\ material.purchasePrice = Num(1000)
    /\ derived.pricePerBaseUnit = Zero

\* C9: only the convenience prices of the material's own unit system are
\* populated; the others are absent, not 0.
C9_OnlyOwnSystemPrices ==
    derived # Undefined =>
        /\ material.purchaseUnit \in {"g", "kg"} =>
              /\ derived.pricePerMilliliter = Undefined
              /\ derived.pricePerLiter = Undefined
              /\ derived.pricePerUnit = Undefined
        /\ material.purchaseUnit \in {"ml", "l"} =>
              /\ derived.pricePerGram = Undefined
              /\ derived.pricePerKilogram = Undefined
              /\ derived.pricePerUnit = Undefined
        /\ material.purchaseUnit \notin {"g", "kg", "ml", "l"} =>
              /\ derived.pricePerGram = Undefined
              /\ derived.pricePerKilogram = Undefined
              /\ derived.pricePerMilliliter = Undefined
              /\ derived.pricePerLiter = Undefined

C9_Witness ==
    /\ derived # Undefined
    /\ material.purchaseUnit = "g"
    /\ derived.pricePerGram # Undefined
    /\ derived.pricePerKilogram # Undefined
    /\ derived.pricePerLiter = Undefined
    /\ derived.pricePerUnit = Undefined

\* C10: a mass material has pricePerGram = pricePerBaseUnit and pricePerKilogram =
\* pricePerBaseUnit * 1000, a volume material has pricePerMilliliter =
\* pricePerBaseUnit and pricePerLiter = pricePerBaseUnit * 1000; 1000 for 1 kg
\* gives pricePerKilogram = 1000 and pricePerGram = 1.
C10_ConveniencePrices ==
    derived # Undefined =>
        /\ material.purchaseUnit \in {"g", "kg"} =>
              /\ derived.pricePerGram = derived.pricePerBaseUnit
              /\ derived.pricePerKilogram = Mul(Num(1000), derived.pricePerBaseUnit)
        /\ material.purchaseUnit \in {"ml", "l"} =>
              /\ derived.pricePerMilliliter = derived.pricePerBaseUnit
              /\ derived.pricePerLiter = Mul(Num(1000), derived.pricePerBaseUnit)
        /\ material = ScenarioMaterial =>
              /\ derived.pricePerKilogram = Num(1000)
              /\ derived.pricePerGram = One

C10_Witness ==
    /\ derived # Undefined
    /\ material = ScenarioMaterial
    /\ derived.pricePerKilogram = Num(1000)
    /\ derived.pricePerGram = One

\* C11: a count material has pricePerUnit = purchasePrice / purchaseQuantity when
\* purchaseQuantity > 0; when purchaseQuantity <= 0, pricePerUnit is absent and
\* pricePerBaseUnit is 0.
C11_PricePerUnit ==
    (derived # Undefined /\ material.purchaseUnit \notin {"g", "kg", "ml", "l"}) =>
        /\ Gt(material.purchaseQuantity, Zero) =>
              derived.pricePerUnit = Div(material.purchasePrice, material.purchaseQuantity)
        /\ ~Gt(material.purchaseQuantity, Zero) =>
              /\ derived.pricePerUnit = Undefined
              /\ derived.pricePerBaseUnit = Zero

C11_Witness ==
    /\ derived # Undefined
    /\ material.purchaseUnit = "unit"
    /\ material.purchaseQuantity = Zero
    /\ material.purchasePrice = Num(1000)
    /\ derived.pricePerUnit = Undefined
    /\ derived.pricePerBaseUnit = Zero

----------------------------------------------------------------------------
(* Properties of getUnitSystem and the conversions, under SpecUnits *)

\* C12: getUnitSystem returns exactly one of the three systems for every value:
\* mass for g and kg, volume for ml and l, and the count system for "unit" and
\* for any other value.
C12_UnitSystem ==
    unitSystemResult # Undefined =>
        /\ unitSystemResult.system \in {"mass", "volume", "unit"}
        /\ unitSystemResult.system = "mass" <=> targetUnit \in {"g", "kg"}
        /\ unitSystemResult.system = "volume" <=> targetUnit \in {"ml", "l"}
        /\ unitSystemResult.system = "unit" <=> targetUnit \notin {"g", "kg", "ml", "l"}

C12_Witness ==
    /\ unitSystemResult # Undefined
    /\ targetUnit \in UnknownUnits
    /\ unitSystemResult.system = "unit"

\* C13: convertToBaseUnit returns quantity * 1000 for kg and l and the quantity
\* itself for every other unit; the product is the floating-point product, not
\* rounded to a whole number or to decimals.
C13_ConvertToBaseUnit ==
    baseResult # Undefined =>
        /\ targetUnit \in {"kg", "l"} =>
              baseResult = Round(Norm(1000 * givenQuantity.n, givenQuantity.d))
        /\ targetUnit \notin {"kg", "l"} => baseResult = givenQuantity

C13_Witness ==
    /\ baseResult # Undefined
    /\ targetUnit = "l"
    /\ givenQuantity = Norm(1, 512)
    /\ baseResult = Norm(125, 64)

\* the multiplication by 1000 of convertToBaseUnit was exact
ExactlyConverted == baseResult = Norm(1000 * givenQuantity.n, givenQuantity.d)

\* C14 as stated: for kg and l and every quantity q >= 0,
\* convertFromBaseUnit(convertToBaseUnit(q, u), u) = q.
C14_RoundTripAsStated ==
    (roundTrip # Undefined /\ targetUnit \in {"kg", "l"} /\ ~Gt(Zero, givenQuantity)) =>
        roundTrip = givenQuantity

\* C14 amended: convertFromBaseUnit divides by 1000 for kg and l and is the
\* identity for the other units; the round trip returns q for the other units,
\* and for kg and l whenever q * 1000 was computed without rounding.
C14_RoundTrip ==
    roundTrip # Undefined =>
        /\ targetUnit \in {"kg", "l"} => roundTrip = Div(baseResult, Num(1000))
        /\ targetUnit \notin {"kg", "l"} => roundTrip = baseResult
        /\ (targetUnit \notin {"kg", "l"} \/ ExactlyConverted) => roundTrip = givenQuantity

C14_Witness ==
    /\ roundTrip # Undefined
    /\ targetUnit = "l"
    /\ givenQuantity = Norm(3, 2)
    /\ baseResult = Num(1500)
    /\ roundTrip = givenQuantity

----------------------------------------------------------------------------
(* Properties of two calls of calculateProductCosts, under SpecPair *)

BothReturned == result # Undefined /\ result2 # Undefined

SameTotals ==
    /\ result2.totalMaterialCost = result.totalMaterialCost
    /\ result2.totalCost = result.totalCost
    /\ result2.unitCost = result.unitCost
    /\ result2.recommendedPrice = result.recommendedPrice

\* the requirement at pos of product2 has no material or a material of another
\* unit system, and product2 is product with that requirement inserted
InvalidInsertedAt(pos) ==
    /\ materials2 = materials
    /\ Len(product2.materials) = Len(product.materials) + 1
    /\ product2.materials = Inserted(product.materials, pos, product2.materials[pos])
    /\ \A j \in 1..Len(materials) :
          materials[j].id = product2.materials[pos].materialId =>
              getUnitSystem(materials[j].purchaseUnit)
                  # getUnitSystem(product2.materials[pos].unit)

\* C16: a product with one more requirement, whose material is missing or of an
\* incompatible unit system, has the same totalMaterialCost, totalCost, unitCost
\* and recommendedPrice, and reports the added line with valid = false and cost 0.
C16_InvalidLineKeepsTotals ==
    BothReturned =>
        \A pos \in 1..Len(product2.materials) :
            InvalidInsertedAt(pos) =>
                /\ SameTotals
                /\ result2.breakdown[pos].valid = FALSE
                /\ result2.breakdown[pos].cost = Zero
                /\ \A i \in 1..Len(product.materials) :
                      result2.breakdown[IF i < pos THEN i ELSE i + 1] = result.breakdown[i]

C16_Witness ==
    /\ BothReturned
    /\ materials = <<ScenarioMaterial>>
    /\ Len(product.materials) = 2
    /\ InvalidInsertedAt(2)
    /\ product2.materials[2].unit = "ml"
    /\ result.breakdown[1].valid /\ result.breakdown[2].valid
    /\ result.totalMaterialCost = Num(1000)
    /\ result2.totalMaterialCost = Num(1000)

\* product2 and materials2 are product and materials with their lists rearranged
\* by f and g
RearrangedBy(f, g) ==
    /\ Len(product2.materials) = Len(product.materials)
    /\ Len(materials2) = Len(materials)
    /\ \A i \in 1..Len(product.materials) : product2.materials[i] = product.materials[f[i]]
    /\ \A j \in 1..Len(materials) : materials2[j] = materials[g[j]]

IsRearranged ==
    /\ Len(product2.materials) = Len(product.materials)
    /\ Len(materials2) = Len(materials)
    /\ \E f \in Permutations(1..Len(product.materials)), g \in Permutations(1..Len(materials)) :
          RearrangedBy(f, g)

\* C18 as stated: rearranging product.materials and a material list without
\* repeated ids leaves the four totals unchanged.
C18_OrderAsStated == (BothReturned /\ IsRearranged) => SameTotals

\* C18 amended: rearranging the material list alone leaves the whole result
\* unchanged; rearranging product.materials rearranges the breakdown lines the
\* same way, and leaves the four totals unchanged when the product has at most
\* two lines.
C18_Order ==
    BothReturned =>
        /\ \A f \in Permutations(1..Len(product.materials)),
              g \in Permutations(1..Len(materials)) :
              (Len(product2.materials) = Len(product.materials)
                   /\ Len(materials2) = Len(materials) /\ RearrangedBy(f, g)) =>
                  \A i \in 1..Len(product.materials) :
                      result2.breakdown[i] = result.breakdown[f[i]]
        /\ (IsRearranged /\ product2.materials = product.materials) => result2 = result
        /\ (IsRearranged /\ Len(product.materials) <= 2) => SameTotals

C18_Witness ==
    /\ BothReturned
    /\ IsRearranged
    /\ Len(materials) = 2
    /\ materials2 # materials
    /\ Len(product.materials) = 2
    /\ product2.materials # product.materials
    /\ result.breakdown[1].valid /\ result.breakdown[2].valid
    /\ result.totalMaterialCost = Num(1500)
    /\ result2.totalMaterialCost = Num(1500)

----------------------------------------------------------------------------
(* Properties of calls running at the same time, under SpecConcurrent *)

ArgumentsKept ==
    \A i \in Invocations :
        /\ invocations'[i].product = invocations[i].product
        /\ invocations'[i].materials = invocations[i].materials

ReturnedAlone ==
    \A i \in Invocations :
        invocations[i].pc = "returned" =>
            invocations[i].ret =
                calculateProductCosts(invocations[i].product, invocations[i].materials)

\* C20: no step of a call changes the product or the materials of any call, and
\* however the statements of the calls interleave, each call returns what
\* calculateProductCosts gives for its own arguments alone.
C20_PureAndStateless == [][ArgumentsKept]_vars /\ []ReturnedAlone

C20_Witness ==
    /\ invocations[1].pc = "returned"
    /\ invocations[2].pc = "mapping"
    /\ Len(invocations[2].product.materials) = 2
    /\ Len(invocations[2].breakdown) = 1
    /\ invocations[1].materials # <<>> /\ invocations[2].materials # <<>>
    /\ invocations[1].materials # invocations[2].materials
    /\ invocations[1].product = invocations[2].product
    /\ invocations[1].ret.breakdown[1].valid
    /\ ~invocations[2].breakdown[1].valid

----------------------------------------------------------------------------
(* Properties of calculateProductCosts on signed arguments, under SpecSigned *)

NonNegative(x) == IsFinite(x) /\ x.n >= 0

AtLeast(a, b) == IsFinite(a) /\ IsFinite(b) /\ a.n * b.d >= b.n * a.d

NonNegativeArguments ==
    /\ \A j \in 1..Len(materials) : NonNegative(materials[j].purchasePrice)
    /\ \A i \in 1..Len(product.materials) : NonNegative(product.materials[i].quantity)
    /\ NonNegative(product.laborCost)
    /\ NonNegative(product.additionalCost)
    /\ NonNegative(product.targetMargin)

\* C27: when every purchase price, every requirement quantity, laborCost,
\* additionalCost and targetMargin are >= 0, every breakdown cost,
\* totalMaterialCost, totalCost and unitCost are >= 0 and recommendedPrice is at
\* least unitCost, for purchase quantities and batch sizes of any sign.
C27_NonNegative ==
    (result # Undefined /\ NonNegativeArguments) =>
        /\ \A i \in 1..Len(result.breakdown) : NonNegative(result.breakdown[i].cost)
        /\ NonNegative(result.totalMaterialCost)
        /\ NonNegative(result.totalCost)
        /\ NonNegative(result.unitCost)
        /\ AtLeast(result.recommendedPrice, result.unitCost)

C27_Witness ==
    /\ result # Undefined
    /\ NonNegativeArguments
    /\ materials[1].purchaseQuantity = Num(-1)
    /\ materials[1].purchasePrice = Num(3)
    /\ product.materials[1].quantity = Norm(1, 2)
    /\ product.materials[1].unit = "g"
    /\ product.batchSize = Num(-2)
    /\ product.laborCost = Num(200)
    /\ product.targetMargin = Num(40)
    /\ result.breakdown[1].valid
    /\ result.unitCost = Num(200)
    /\ result.recommendedPrice = Num(280)

----------------------------------------------------------------------------
(* Unit invariance of getProductMaterialCost, under SpecLine *)

\* the unit a thousand times smaller, of the same system
SmallUnit(unit) == IF unit = "kg" THEN "g" ELSE "ml"

Thousandfold(x) == Norm(1000 * x.n, x.d)

\* 1000 * x is a number of the arithmetic
HasThousandfold(x) == IsFinite(x) /\ Round(Thousandfold(x)) = Thousandfold(x)

RequirementInSmallUnit ==
    [requirement EXCEPT !.quantity = Thousandfold(requirement.quantity),
                        !.unit = SmallUnit(requirement.unit)]

MaterialInSmallUnit ==
    [material EXCEPT !.purchaseQuantity = Thousandfold(material.purchaseQuantity),
                     !.purchaseUnit = SmallUnit(material.purchaseUnit)]

\* C26: for a material and a requirement of the same system, a requirement of
\* q kg (or l) costs the same as one of 1000 q g (or ml), and a material bought
\* as 1000 Q g (or ml) instead of Q kg (or l) at the same price has the same
\* pricePerBaseUnit and gives the same requirement cost.
C26_UnitInvariance ==
    (lineResult # Undefined /\ SameSystem) =>
        /\ (requirement.unit \in {"kg", "l"} /\ HasThousandfold(requirement.quantity)) =>
              getProductMaterialCost(material, RequirementInSmallUnit) = lineResult
        /\ (material.purchaseUnit \in {"kg", "l"}
                /\ HasThousandfold(material.purchaseQuantity)) =>
              /\ getMaterialDerivedValues(MaterialInSmallUnit).pricePerBaseUnit
                    = getMaterialDerivedValues(material).pricePerBaseUnit
              /\ getProductMaterialCost(MaterialInSmallUnit, requirement) = lineResult

C26_Witness ==
    /\ lineResult # Undefined
    /\ material # Undefined
    /\ material.purchaseUnit = "l"
    /\ material.purchaseQuantity = Num(2)
    /\ material.purchasePrice = Num(1000)
    /\ requirement.unit = "l"
    /\ requirement.quantity = Norm(1, 2)
    /\ lineResult.valid
    /\ lineResult.cost = Num(250)
    /\ getProductMaterialCost(MaterialInSmallUnit, RequirementInSmallUnit).cost = Num(250)

----------------------------------------------------------------------------
(* Properties of the normalizers, under SpecStore *)

AllStrings(value) ==
    IsArray(value) /\ \A i \in 1..Len(value.elements) : value.elements[i].typeof = "string"

\* C24: normalizeRawMaterial gives tags that are a list of strings (the stored
\* tags when they are an array of strings, else the empty list), a salePrice
\* that is the stored number or absent, a currency that is "ARS" when none is
\* stored, and the stored purchasePrice, purchaseQuantity and purchaseUnit.
C24_NormalizeRawMaterial ==
    normalizedMaterial # Undefined =>
        /\ AllStrings(normalizedMaterial.tags)
        /\ normalizedMaterial.tags =
              (IF AllStrings(storedMaterial.tags) THEN storedMaterial.tags ELSE JsArray(<<>>))
        /\ normalizedMaterial.salePrice \in {storedMaterial.salePrice, JsUndefined}
        /\ normalizedMaterial.salePrice.typeof \in {"number", "undefined"}
        /\ storedMaterial.salePrice.typeof = "number" =>
              normalizedMaterial.salePrice = storedMaterial.salePrice
        /\ normalizedMaterial.currency =
              (IF storedMaterial.currency \in {JsUndefined, JsNull}
               THEN JsString("ARS") ELSE storedMaterial.currency)
        /\ normalizedMaterial.purchasePrice = storedMaterial.purchasePrice
        /\ normalizedMaterial.purchaseQuantity = storedMaterial.purchaseQuantity
        /\ normalizedMaterial.purchaseUnit = storedMaterial.purchaseUnit

C24_Witness ==
    /\ normalizedMaterial # Undefined
    /\ storedMaterial.tags = JsArray(<<JsString("a"), JsNumber(One)>>)
    /\ normalizedMaterial.tags = JsArray(<<>>)
    /\ storedMaterial.salePrice = JsString("3")
    /\ normalizedMaterial.salePrice = JsUndefined
    /\ storedMaterial.currency = JsNull
    /\ normalizedMaterial.currency = JsString("ARS")
    /\ normalizedMaterial.purchasePrice = JsString("1000")

WellFormedEntry(item) ==
    /\ "fields" \in DOMAIN item
    /\ Property(item, "materialId").typeof = "string"
    /\ Property(item, "quantity").typeof = "number"
    /\ Property(item, "unit").typeof = "string"

RECURSIVE WellFormedEntries(_)
WellFormedEntries(entries) ==
    IF entries = <<>> THEN <<>>
    ELSE IF WellFormedEntry(Head(entries))
         THEN <<Head(entries)>> \o WellFormedEntries(Tail(entries))
         ELSE WellFormedEntries(Tail(entries))

\* C25 as stated: normalizeProduct never throws, and the materials of its result
\* are the stored entries that are objects with a string materialId, a number
\* quantity and a string unit, in the stored order (the empty list when the
\* stored field is not an array); undefined, null and other entries are dropped.
C25_NormalizeProductAsStated ==
    normalizedProduct # Undefined =>
        /\ "thrown" \notin DOMAIN normalizedProduct
        /\ normalizedProduct.materials =
              (IF IsArray(storedProduct.materials)
               THEN JsArray(WellFormedEntries(storedProduct.materials.elements))
               ELSE JsArray(<<>>))

----------------------------------------------------------------------------
(* Properties of the products the page shows, under SpecPage *)

Shown == productsMemo.value

\* C23: after any deliveries of snapshots the page shows, for each product of
\* the latest product snapshot, calculateProductCosts of that product and the
\* latest material snapshot; a requirement whose material is not in the latest
\* material snapshot is shown invalid with cost 0 and flags the product.
C23_ShownCostsAreCurrent ==
    /\ Len(Shown) = Len(products)
    /\ \A i \in 1..Len(products) :
          /\ Shown[i].product = products[i]
          /\ Shown[i].costs = calculateProductCosts(products[i], rawMaterials)
          /\ \A k \in 1..Len(products[i].materials) :
                (\A j \in 1..Len(rawMaterials) :
                      rawMaterials[j].id # products[i].materials[k].materialId) =>
                    /\ ~Shown[i].costs.breakdown[k].valid
                    /\ Shown[i].costs.breakdown[k].cost = Zero
                    /\ Shown[i].hasWarnings

C23_Witness ==
    /\ Len(products) = 1
    /\ products[1].materials[1].materialId = "m2"
    /\ rawMaterials = <<PageMaterial("m1", Num(1000), "kg")>>
    /\ materialError
    /\ Shown[1].hasWarnings
    /\ Shown[1].costs.totalMaterialCost = Zero
    /\ Shown[1].costs.breakdown[1].warning = NotFoundWarning

NoOverride(i) == products[i].overrideSalePrice = Undefined

ShownAsComputed(i) ==
    /\ Shown[i].salePrice =
          (IF NoOverride(i) THEN Shown[i].costs.recommendedPrice
           ELSE products[i].overrideSalePrice)
    /\ Shown[i].margin =
          (IF Gt(Shown[i].salePrice, Zero)
           THEN Mul(Div(Sub(Shown[i].salePrice, Shown[i].costs.unitCost),
                        Shown[i].salePrice), Num(100))
           ELSE Zero)

\* 100 m / (100 + m)
MarginOnPrice(m) == Div(Mul(Num(100), m), Add(Num(100), m))

\* C21 as stated: salePrice is the override when present, else recommendedPrice;
\* the margin shown is (salePrice - unitCost) / salePrice * 100 when salePrice > 0,
\* else 0; with no override, unitCost > 0 and targetMargin m > 0 the margin shown
\* equals 100 m / (100 + m) and is below m.
C21_ShownMarginAsStated ==
    \A i \in 1..Len(products) :
        /\ ShownAsComputed(i)
        /\ (NoOverride(i) /\ Gt(Shown[i].costs.unitCost, Zero)
                /\ Gt(products[i].targetMargin, Zero)) =>
              /\ Shown[i].margin = MarginOnPrice(products[i].targetMargin)
              /\ Gt(products[i].targetMargin, Shown[i].margin)

\* C21 amended: salePrice and the margin shown are computed as stated; with no
\* override, unitCost > 0 and targetMargin m >= 1 the margin shown is above 0
\* and below m.
C21_ShownMargin ==
    \A i \in 1..Len(products) :
        /\ ShownAsComputed(i)
        /\ (NoOverride(i) /\ Gt(Shown[i].costs.unitCost, Zero)
                /\ AtLeast(products[i].targetMargin, One)) =>
              /\ Gt(Shown[i].margin, Zero)
              /\ Gt(products[i].targetMargin, Shown[i].margin)

C21_Witness ==
    /\ Len(products) = 1
    /\ NoOverride(1)
    /\ products[1].targetMargin = Num(40)
    /\ Shown[1].costs.unitCost = Num(75)
    /\ Shown[1].salePrice = Num(105)
    /\ Gt(Shown[1].margin, Num(28))
    /\ Gt(Num(29), Shown[1].margin)

----------------------------------------------------------------------------
(* Properties of the material form, under SpecMaterialForm *)

Positive(x) == IsFinite(x) /\ x.n > 0

\* the checks of the material form, as the claim states them
MaterialFormAccepted ==
    /\ trim(materialForm.name) # <<>>
    /\ Positive(Number(materialForm.purchasePrice))
    /\ Positive(Number(materialForm.purchaseQuantity))
    /\ materialForm.salePrice # <<>> => Positive(Number(materialForm.salePrice))

\* C22: the payload of every createRawMaterial or updateRawMaterial call of the
\* form has a non-empty trimmed name, a finite purchasePrice > 0, a finite
\* purchaseQuantity > 0 and, when it has a salePrice, a salePrice > 0; a submit
\* of a form that fails one of these checks starts no call and leaves the form,
\* the modal and the saving flag as they are.
C22_MaterialFormChecks ==
    /\ [](materialCall # Undefined =>
            /\ materialCall.payload.name # <<>>
            /\ trim(materialCall.payload.name) = materialCall.payload.name
            /\ Positive(materialCall.payload.purchasePrice)
            /\ Positive(materialCall.payload.purchaseQuantity)
            /\ materialCall.payload.salePrice # Undefined =>
                  Positive(materialCall.payload.salePrice))
    /\ [][(HandleMaterialSubmit /\ ~MaterialFormAccepted) =>
            UNCHANGED <<materialCall, materialForm, isMaterialModalOpen, isSavingMaterial>>]_vars
    /\ [][(materialCall = Undefined /\ materialCall' # Undefined) => MaterialFormAccepted]_vars

C22_Witness ==
    /\ materialCall # Undefined
    /\ materialCall.operation = "updateRawMaterial"
    /\ materialCall.payload.name = <<"a">>
    /\ materialCall.payload.purchasePrice = Num(2)
    /\ materialCall.payload.purchaseQuantity = Norm(3, 2)
    /\ materialCall.payload.salePrice = Num(5)
    /\ materialCall.payload.tags = <<<<"a">>, <<"d">>>>
    /\ materialCall.payload.currency = <<"U", "S", "D">>

----------------------------------------------------------------------------
(* Properties of the product form, under SpecProductForm *)

RECURSIVE Survivors(_)
\* the rows of the form with a material chosen and a finite quantity above 0,
\* in the order of the form, as requirements
Survivors(rows) ==
    IF rows = <<>> THEN <<>>
    ELSE LET row == rows[Len(rows)]
             before == Survivors(SubSeq(rows, 1, Len(rows) - 1))
         IN  IF row.materialId # "" /\ Positive(Number(row.quantity))
             THEN Append(before, [ materialId |-> row.materialId,
                                   quantity |-> Number(row.quantity),
                                   unit |-> row.unit ])
             ELSE before

ProductFormAccepted ==
    /\ trim(productForm.name) # <<>>
    /\ Positive(Number(productForm.batchSize))
    /\ Survivors(productForm.materials) # <<>>

\* C28: every product handed to createProduct or updateProduct by the product
\* form has a non-empty trimmed name, a finite batchSize above 0 and at least
\* one requirement, each with a non-empty materialId and a finite quantity above
\* 0; the requirements are the form's rows that pass, in the form's order; when
\* the name is empty, batchSize is not above 0 or no row passes, no call is made.
C28_ProductFormChecks ==
    /\ [](productCall # Undefined =>
            /\ productCall.payload.name # <<>>
            /\ productCall.payload.name = trim(productCall.payload.name)
            /\ Positive(productCall.payload.batchSize)
            /\ Len(productCall.payload.materials) >= 1
            /\ \A i \in 1..Len(productCall.payload.materials) :
                  /\ productCall.payload.materials[i].materialId # ""
                  /\ Positive(productCall.payload.materials[i].quantity))
    /\ [][(productCall = Undefined /\ productCall' # Undefined) =>
            /\ ProductFormAccepted
            /\ productCall'.payload.materials = Survivors(productForm.materials)]_vars
    /\ [][(HandleProductSubmit /\ ~ProductFormAccepted) =>
            UNCHANGED <<productCall, productForm, isProductModalOpen, isSavingProduct>>]_vars

C28_Witness ==
    /\ productCall # Undefined
    /\ productCall.operation = "updateProduct"
    /\ productCall.id = JsString("p1")
    /\ productCall.payload.name = <<"p">>
    /\ productCall.payload.batchSize = Num(10)
    /\ productCall.payload.materials =
          <<[materialId |-> "m2", quantity |-> Num(2), unit |-> "ml"]>>
    /\ Len(productForm.materials) = 2
    /\ productForm.materials[1].materialId = "m2"
    /\ productForm.materials[1].quantity = <<>>

\* C29: the product form always holds at least one row, whatever rows are
\* added, removed or edited and whichever product is created or edited, a
\* product without materials included; removing the only row leaves the rows
\* as they are.
C29_AtLeastOneLine ==
    /\ [](Len(productForm.materials) >= 1)
    /\ [][(RemoveMaterialLine /\ Len(productForm.materials) = 1) =>
            productForm'.materials = productForm.materials]_vars

C29_Witness ==
    /\ productForm.id = JsString("p1")
    /\ Len(productForm.materials) = 1
    /\ productForm.materials[1].id = 2

----------------------------------------------------------------------------
(* Properties of the saving of the two forms, under SpecSaving *)

MaterialSuccessToasts ==
    {[title |-> "Materia prima actualizada"], [title |-> "Materia prima creada"]}

ProductSuccessToasts ==
    {[title |-> "Producto actualizado"], [title |-> "Producto creado"]}

\* isSavingMaterial is true exactly while the call of handleMaterialSubmit is
\* pending, the call is made only for a form that passes validation, and the
\* step that settles it closes the modal and resets the form on success and
\* leaves both as they are on failure
MaterialSavingSteps ==
    /\ [](isSavingMaterial <=> materialCall # Undefined)
    /\ [][(materialCall = Undefined /\ materialCall' # Undefined) =>
            /\ materialRejection(materialForm) = Undefined
            /\ isSavingMaterial']_vars
    /\ [][(materialCall # Undefined /\ materialCall' = Undefined) =>
            /\ ~isSavingMaterial'
            /\ IF toast' \in MaterialSuccessToasts
               THEN ~isMaterialModalOpen' /\ materialForm' = defaultMaterialForm
               ELSE UNCHANGED <<isMaterialModalOpen, materialForm>>]_vars
    /\ isSavingMaterial ~> ~isSavingMaterial

ProductSavingSteps ==
    /\ [](isSavingProduct <=> productCall # Undefined)
    /\ [][(productCall = Undefined /\ productCall' # Undefined) =>
            /\ productRejection(productForm) = Undefined
            /\ isSavingProduct']_vars
    /\ [][(productCall # Undefined /\ productCall' = Undefined) =>
            /\ ~isSavingProduct'
            /\ IF toast' \in ProductSuccessToasts
               THEN ~isProductModalOpen' /\ productForm' = defaultProductForm
               ELSE UNCHANGED <<isProductModalOpen, productForm>>]_vars
    /\ isSavingProduct ~> ~isSavingProduct

\* C30: in handleMaterialSubmit and in handleProductSubmit the saving flag is
\* set once validation has passed, before the persistence call, and is cleared
\* when the call settles, having succeeded or failed, so that it never stays
\* set; on success the modal is closed and the form reset to its defaults, on
\* failure the modal and the form are left as they are.
C30_SavingFlagCleared == MaterialSavingSteps /\ ProductSavingSteps

C30_Witness ==
    /\ toast = [title |-> "No se pudo guardar el producto"]
    /\ ~isSavingProduct
    /\ isProductModalOpen
    /\ productForm.id = JsString("p2")
    /\ isSavingMaterial
    /\ materialCall.operation = "updateRawMaterial"

====
